---- MODULE Spec2Model ----
(***************************************************************************)
(* Model of the trex asynchronous redis client: the connection protocol    *)
(* (reply queue, transaction and pipeline state), the reconnecting factory *)
(* with its free-connection queue, and the connection handler facade.      *)
(*                                                                         *)
(* The program state is bundled in a record S (fields conn, cq, wire,      *)
(* handle, log, ev, exc) so that the synchronous callback chains of the    *)
(* code (a put on the connection queue fires the waiting getConnection,    *)
(* which runs the waiting method, which may put again) are computed by     *)
(* recursive operators; every action then stores the fields of the result. *)
(***************************************************************************)
EXTENDS Integers, Sequences, FiniteSets, TLC

\* ---------------------------------------------------------------- bounds
PoolSize == 2        \* poolsize given to the factory
MaxReconnects == 1   \* connection losses, each followed by a reconnection
MaxCalls == 4        \* API calls issued by the callers in one behaviour
MaxWaiters == 1      \* getConnection calls waiting on the connection queue

Conns == 1..(PoolSize + MaxReconnects)

\* ---------------------------------------------------------------- values
\* A reply, as the python value handed to replyReceived, is a sequence of
\* strings whose head is its type.
NoPP == "none"                     \* no post_proc keyword given
PPs == {NoPP, "f"}                 \* post_proc keyword of a call
Scalar(v) == <<"s", v>>            \* str / unicode / int
Nil == <<"nil">>                   \* None
Err == <<"err">>                   \* ResponseError instance
NoScript == <<"err", "NOSCRIPT">>  \* ResponseError("NOSCRIPT ...")
Lost == <<"lost">>                 \* ConnectionError("Lost connection")
List(es) == <<"list">> \o es       \* python list
IsList(r) == Head(r) = "list"
IsException(r) == Head(r) \in {"err", "lost"}
Elems(r) == Tail(r)
OK == Scalar("OK")
QUEUED == Scalar("QUEUED")

\* the value of the i-th element of an array reply
ElemVal(i) == CASE i = 1 -> "v1" [] i = 2 -> "v2" [] i = 3 -> "v3" [] OTHER -> "v"

\* the value of the bulk reply to the command of promise id
ValOf(id) == "r" \o ToString(id)

\* hashlib.sha1(script).hexdigest() of the script the callers evaluate
Digest == "sha1"

\* a post_proc callable applied to a whole reply / to one element of a list
Apply(f, r) == <<"f">> \o r
ApplyElem(f, e) == "f(" \o e \o ")"

\* what the reader returns for a reply of the wire protocol: status lines and
\* bulk strings both become strings, (nil) becomes None, errors are returned
\* as ResponseError instances, arrays as lists
ReaderGets(w) ==
    CASE w[1] \in {"status", "bulk"} -> Scalar(w[2])
      [] w[1] = "nil" -> Nil
      [] w[1] = "error" -> Err
      [] w[1] = "noscript" -> NoScript
      [] w[1] = "array" -> List(Tail(w))

\* ------------------------------------------------------------- encoding
\* Bytes are sequences of one-byte tokens: a printable character, "\r",
\* "\n", or the hexadecimal name of a byte above 127.  An argument of
\* execute_command is a str (bytes), a unicode (code points) or an int.
StrArg(b) == [t |-> "str", s |-> b, n |-> 0]
UnicodeArg(cps) == [t |-> "unicode", s |-> cps, n |-> 0]
IntArg(n) == [t |-> "int", s |-> <<>>, n |-> n]

CRLF == <<"\r", "\n">>

RECURSIVE Decimal(_), Join(_), Cmds(_, _), Encoded(_, _)

\* str(n) of an int
Decimal(n) ==
    IF n < 0 THEN <<"-">> \o Decimal(0 - n)
    ELSE IF n < 10 THEN <<ToString(n)>>
    ELSE Decimal(n \div 10) \o <<ToString(n % 10)>>

\* "".join(seqs)
Join(seqs) == IF seqs = <<>> THEN <<>> ELSE Head(seqs) \o Join(Tail(seqs))

\* the bytes of one code point in charset, <<"?">> standing for the
\* UnicodeEncodeError of a code point the charset lacks
CodePoint(cp, charset) ==
    IF cp = "U+00E9"
    THEN IF charset = "utf-8" THEN <<"C3", "A9">> ELSE <<"?">>
    ELSE <<cp>>

\* s.encode(self.charset, self.errors) of the code points cps
Encoded(cps, charset) ==
    IF cps = <<>> THEN <<>>
    ELSE CodePoint(Head(cps), charset) \o Encoded(Tail(cps), charset)

\* execute_command: does the argument a raise InvalidData
Unencodable(a, charset) ==
    /\ a.t = "unicode"
    /\ \/ charset = "None"
       \/ \E i \in 1..Len(a.s) : CodePoint(a.s[i], charset) = <<"?">>

\* execute_command: cmd, the bytes of the argument a
Cmd(a, charset) ==
    CASE a.t = "str" -> a.s
      [] a.t = "unicode" -> Encoded(a.s, charset)
      [] a.t = "int" -> Decimal(a.n)

\* cmd_template % (len(cmd), cmd)
Template_nolen(cmd) == <<"$">> \o CRLF \o cmd \o CRLF
Template(cmd) == <<"$">> \o Decimal(Len(cmd)) \o CRLF \o cmd \o CRLF

\* the loop of execute_command: the list cmds
Cmds(args, charset) ==
    IF args = <<>> THEN <<>>
    ELSE <<Template(Cmd(Head(args), charset))>> \o Cmds(Tail(args), charset)

\* command = "*%s\r\n%s" % (len(cmds), "".join(cmds))
Command(cmds) == <<"*">> \o Decimal(Len(cmds)) \o CRLF \o Join(cmds)

\* ---------------------------------------------------------------- state
VARIABLES
    conn,       \* protocol objects: conn[c] is the RedisProtocol number c
    cq,         \* factory.connectionQueue: [pending, waiting]
    pool,       \* factory.pool
    wire,       \* wire[c]: frames written on the socket of c, not yet answered
    srv,        \* the server's state for the socket of c
    handle,     \* handle[c]: what a caller holds c as ("none", "tx", "pipe")
    log,        \* log[c]: the promises of c completed so far, <<id, reply no>>
    ev,         \* what the last step did (completion, hand-out, write)
    ncalls,     \* number of API calls issued so far
    fac,        \* the other attributes of the factory
    hashring,   \* the HashRing of a ShardedConnectionHandler
    sub,        \* the connection of a SubscriberFactory or MonitorFactory
    reader      \* a reply of the hiredis reader and what dataReceived made of it

vars == <<conn, cq, pool, wire, srv, handle, log, ev, ncalls, fac, hashring,
          sub, reader>>

\* RedisFactory(uri, dbid, poolsize, isLazy, ...), continueTrying = reconnect
NewFactory(lazy, reconnect) ==
    [ isLazy |-> lazy,
      password |-> FALSE,          \* a password is configured
      dbid |-> FALSE,              \* a database number is configured
      deferred |-> TRUE,           \* self.deferred is not None
      handlerPromise |-> <<>>,     \* what factory.deferred was fired with
      continueTrying |-> reconnect,
      disconnected |-> FALSE,      \* disconnect() has been called
      retries |-> 0,               \* connection attempts under way or scheduled
      closing |-> {},              \* sockets closed by loseConnection()
      waitingForEmptyPool |-> {},  \* _waitingForEmptyPool: promises, by number
      emptyPromises |-> <<>> ]     \* the outcomes each waitForEmptyPool()
                                   \* promise was fired with, by number

isLazy == fac.isLazy

NewProtocol ==
    [ made |-> FALSE, connected |-> 0,
      post_proc |-> <<>>,
      replyQueue |-> [waiting |-> <<>>, pending |-> <<>>],
      transactions |-> 0, inTransaction |-> FALSE,
      unwatch_cc |-> "noop", commit_cc |-> "noop",
      inMulti |-> FALSE,     \* multi() was called in the current session
      unwatched |-> FALSE,   \* and unwatch() was called after it
      pipelining |-> FALSE, pipelined_commands |-> <<>>,
      pipelined_replies |-> <<>>,
      awaiting |-> {},       \* the DeferredList execute_pipeline waits on:
      listed |-> <<>>,       \* the promises not yet fired, its resultList
      outs |-> <<>>,         \* outcomes of the promises settled in the session
      executing |-> FALSE,   \* execute_pipeline is suspended at its yield
      authed |-> FALSE,      \* AUTH was answered by OK
      selected |-> FALSE,    \* SELECT was answered by OK
      failed |-> FALSE,      \* connectionMade gave up
      charset |-> "utf-8",   \* the factory's charset
      script_hashes |-> {},  \* digests of the scripts known to be cached
      created |-> 0,         \* promises created by execute_command
      nrecv |-> 0 ]          \* replies received from the server

NoDone == [ c |-> 0, id |-> 0, m |-> "", out |-> <<"">> ]
NoRecv == [ c |-> 0, res |-> <<"">>, before |-> 0, inTx |-> FALSE,
            multi |-> FALSE, unwatched |-> FALSE, awaited |-> {} ]
NoPDone == [ c |-> 0, out |-> <<"">>, ids |-> <<>>, outs |-> <<>> ]
NoXp == [ c |-> 0, pipe |-> FALSE ]
NoFlush == [ c |-> 0, ids |-> <<>> ]
NoCall == [ m |-> "", size |-> 0, pb |-> FALSE, nwait |-> 0 ]
NoDisc == [ called |-> FALSE, size |-> 0, resolved |-> FALSE ]
NoLost == [ c |-> 0, closed |-> FALSE, retry |-> FALSE, fired |-> {},
            waiting |-> <<>>, hashes |-> {} ]
NoCancel == [ id |-> 0, called |-> FALSE ]
NoFirst == [ out |-> "", size |-> 0 ]
NoFail == [ c |-> 0, stage |-> "", pending |-> FALSE ]
NoDead == [ c |-> 0, m |-> "", before |-> <<>> ]
NoUnw == [ c |-> 0, inTx |-> FALSE, multi |-> FALSE, nclear |-> 0 ]
\* no call on the sharded handler: its name m and arguments, how it ended,
\* the sub-handler calls it made (fwd), the shard key it looked up and the
\* node the ring returned
NoSharded == [m |-> "", args |-> <<>>, out |-> "", fwd |-> {},
              key |-> <<>>, node |-> 0]

NoEv == [ done |-> NoDone,   \* the last promise or call completed by the step
          reply |-> NoDone,  \* the promise completed with the reply received
          hand |-> <<>>,     \* the connections getConnection handed out
          put |-> <<>>,      \* the connections put on the connection queue
          drop |-> <<>>,     \* the connections getConnection discarded
          pb |-> <<>>,       \* the connections getConnection re-enqueued
          call |-> NoCall,   \* the getConnection() call made by the step
          disc |-> NoDisc,   \* the disconnect() call made by the step
          lost |-> NoLost,   \* the connection the step has lost
          rej |-> <<>>,      \* the promises the connection loss has failed
          cancel |-> NoCancel, \* the promise of disconnect() cancelled
          first |-> NoFirst, \* what the step fired factory.deferred with
          hfail |-> NoFail,  \* the connectionMade that has given up
          reg |-> <<>>,      \* the connections addConnection registered
          args |-> <<>>,     \* the arguments of the execute_command call
          sh |-> NoSharded,  \* the call on the sharded handler
          dead |-> NoDead,   \* the call made on a connection that is down
          recv |-> NoRecv,   \* the reply dataReceived got from the reader
          asked |-> <<>>,    \* watch-only session: post_proc of the command answered
          unw |-> NoUnw,     \* the last unwatch() call and the state it found
          write |-> <<>>,    \* the calls of transport.write
          flush |-> NoFlush, \* the last execute_pipeline() that went to write
          xp |-> NoXp,       \* the last execute_pipeline() call
          pdone |-> NoPDone, \* the execute_pipeline() that has finished
          clear |-> <<>>,    \* the connections _clear_txstate has cleared
          exec |-> <<>> ]    \* post_procs of the commands EXEC has run

NewServer == [ multi |-> FALSE, queue |-> <<>>, watched |-> FALSE,
               dirty |-> FALSE ]

\* The bundle the callback chains work on.  exc is the exception raised by
\* the call being run ("" when none), ret the value a function returns.
Bundle == [ conn |-> conn, cq |-> cq, wire |-> wire, handle |-> handle,
            log |-> log, ev |-> NoEv, exc |-> "", ret |-> <<"">>,
            pool |-> pool, fac |-> fac ]

Min(a, b) == IF a < b THEN a ELSE b

\* the failure a promise ends with when handle_reply raises the reply
Failure(r) == IF Head(r) = "lost" THEN <<"ConnectionError">>
              ELSE <<"ResponseError">>
IsFailure(out) == Head(out) \in {"ConnectionError", "ResponseError",
                                 "RedisError", "WatchError", "InvalidData",
                                 "FirstError"}
\* the failure of a DeferredList(fireOnOneErrback=True) whose promise failed
\* with out
FirstError(out) == <<"FirstError">> \o out
\* the value of a DeferredList whose promises rs[1..n] have all succeeded
Results_reversed(rs, n) == <<"results", [i \in 1..n |-> rs[n + 1 - i].res]>>
Results(rs, n) == <<"results", [i \in 1..n |-> rs[i].res]>>

RECURSIVE Put(_, _), Get(_, _), GotConn(_, _, _), RunOn(_, _, _)
RECURSIVE Method(_, _, _), execute_command(_, _, _), Complete(_, _, _, _)
RECURSIVE Raised(_, _, _)
RECURSIVE clear_txstate(_, _), LoseAll(_, _)
RECURSIVE addConnection(_, _), afterAuth(_, _)

\* twisted DeferredQueue.put on the reply queue: which waiter gets the object
PutWaiterIndex_last(waiting) == Len(waiting)
PutWaiterIndex(waiting) == 1

\* a command the handler dispatched on protocol p awaits its reply
InFlight(p) ==
    \E i \in 1..Len(p.replyQueue.waiting) : p.replyQueue.waiting[i].h

\* occurrences of x in the sequence q
Count(q, x) == Cardinality({i \in 1..Len(q) : q[i] = x})

\* ------------------------------------------------- factory.connectionQueue
\* DeferredQueue.put(conn): fire the first waiting getConnection, else keep
Put(S, x) ==
    LET S0 == [S EXCEPT !.ev.put =
                  Append(@, [c |-> x, up |-> S.conn[x].connected])]
    IN  IF S.cq.waiting = <<>>
        THEN [S0 EXCEPT !.cq.pending = Append(@, x)]
        ELSE GotConn([S0 EXCEPT !.cq.waiting = Tail(@)], x,
                     Head(S.cq.waiting))

\* DeferredQueue.get() for the handler call w
Get(S, w) ==
    IF S.cq.pending # <<>>
    THEN GotConn([S EXCEPT !.cq.pending = Tail(@)], Head(S.cq.pending), w)
    ELSE [S EXCEPT !.cq.waiting = Append(@, w)]

\* getConnection: if put_back: self.connectionQueue.put(conn)
PutBack_twice(S, x) ==
    Put(Put([S EXCEPT !.ev.pb = Append(@, x)], x), x)
PutBack(S, x) == Put([S EXCEPT !.ev.pb = Append(@, x)], x)

\* getConnection: returnValue(conn) to the call w, in the state S1 in which
\* it returns
HandOut(S1, x, w) ==
    [S1 EXCEPT !.ev.hand = Append(@,
        [c |-> x, up |-> S1.conn[x].connected,
         inTx |-> S1.conn[x].inTransaction,
         held |-> S1.handle[x],
         busy |-> InFlight(S1.conn[x]),
         pb |-> w.pb, inq |-> Count(S1.cq.pending, x)])]

\* getConnection after its yield: drop a dead connection and retry
GotConn_nocheck(S, x, w) == RunOn(S, x, w)
GotConn(S, x, w) ==
    IF S.conn[x].connected = 0
    THEN Get([S EXCEPT !.ev.drop = Append(@, x)], w)
    ELSE IF w.m = "getConnection"
    THEN HandOut(IF w.pb THEN PutBack(S, x) ELSE S, x, w)
    ELSE RunOn(S, x, w)

\* ---------------------------------------------------- ConnectionHandler
\* put_back(reply) of the handler's wrapper
put_back_never(S, x) == S
put_back(S, x) ==
    IF ~S.conn[x].inTransaction THEN Put(S, x) ELSE S

\* callback(connection) of the handler's wrapper: the except branch, run on
\* the state S1 the protocol method left
Raised(S1, x, w) ==
    IF S1.exc # ""
    THEN Put([S1 EXCEPT !.exc = "",
                        !.ev.done = [c |-> x, id |-> 0, m |-> w.m,
                                     out |-> <<S1.exc>>]], x)
    ELSE S1

\* callback(connection) of the handler's wrapper
RunOn(S, x, w) ==
    Raised(Method(HandOut(S, x, w), x, w), x, w)

\* ---------------------------------------------------------- RedisApiMixin
\* (the caller that held c for the transaction holds it no longer)
clear_txstate(S, c) ==
    IF S.conn[c].inTransaction
    THEN Put([S EXCEPT !.conn[c].inTransaction = FALSE,
                       !.conn[c].inMulti = FALSE,
                       !.conn[c].unwatched = FALSE,
                       !.ev.clear = Append(@, c),
                       !.handle[c] = @ \ {"tx"}], c)
    ELSE S

\* unwatch_cc() / commit_cc(): either _clear_txstate or lambda: ()
CallCC(S, c, cc) == IF cc = "clear" THEN clear_txstate(S, c) ELSE S

\* the pipelined_replies entry of promise id gets its result
SetPipelined(replies, id, out) ==
    [i \in 1..Len(replies) |->
        IF replies[i].id = id THEN [id |-> id, res |-> out] ELSE replies[i]]

\* the finally block of execute_pipeline
PipelineReset_keep(S, c, out) ==
    [S EXCEPT !.conn[c].pipelining = FALSE,
              !.conn[c].awaiting = {},
              !.conn[c].executing = FALSE,
              !.handle[c] = @ \ {"pipe"},
              !.ev.pdone = [c |-> c, out |-> out, ids |-> <<>>,
                            outs |-> <<>>]]

PipelineReset(S, c, out) ==
    [S EXCEPT !.conn[c].pipelining = FALSE,
              !.conn[c].pipelined_commands = <<>>,
              !.conn[c].pipelined_replies = <<>>,
              !.conn[c].awaiting = {},
              !.conn[c].listed = <<>>,
              !.conn[c].outs = <<>>,
              !.conn[c].executing = FALSE,
              !.handle[c] = @ \ {"pipe"},
              !.ev.pdone = [c |-> c, out |-> out,
                            ids |-> [i \in 1..Len(S.conn[c].listed) |->
                                       S.conn[c].listed[i].id],
                            outs |-> S.conn[c].outs],
              !.ev.done = [c |-> c, id |-> 0, m |-> "execute_pipeline",
                           out |-> out]]

\* transport.write(data) called by the function by: the frames reach the
\* server when the socket is up
Write(S, c, frames, by) ==
    [S EXCEPT !.wire[c] = IF S.conn[c].connected = 1 THEN @ \o frames ELSE @,
              !.ev.write = Append(@, [c |-> c, frames |-> frames, by |-> by,
                                      pipe |-> S.conn[c].pipelining])]

\* execute_command: the command is buffered when pipelining, else written
Send_unbuffered(S, c, fr) == Write(S, c, <<fr>>, "execute_command")
Send(S, c, fr) ==
    IF S.conn[c].pipelining
    THEN [S EXCEPT !.conn[c].pipelined_commands = Append(@, fr)]
    ELSE Write(S, c, <<fr>>, "execute_command")

\* execute_pipeline: transport.write("".join(self.pipelined_commands))
Flush(S, c) ==
    Write([S EXCEPT !.conn[c].listed = S.conn[c].pipelined_replies,
                    !.ev.flush =
                        [c |-> c,
                         ids |-> [i \in 1..Len(S.conn[c].pipelined_replies) |->
                                    S.conn[c].pipelined_replies[i].id]]],
          c, S.conn[c].pipelined_commands, "execute_pipeline")

\* execute_command: an argument of the call q does not encode.  Where the
\* arguments are not spelled out (no field args), q.ok says whether they do.
RaisesInvalidData(q, charset) ==
    IF "args" \in DOMAIN q
    THEN \E i \in 1..Len(q.args) : Unencodable(q.args[i], charset)
    ELSE ~q.ok

\* execute_command: the command built for promise id; it carries its bytes
\* where the arguments are spelled out
Frame(q, id, charset) ==
    IF "args" \in DOMAIN q
    THEN [cmd |-> q.frame, pp |-> q.pp, id |-> id, args |-> q.args,
          bytes |-> Command(Cmds(q.args, charset))]
    ELSE [cmd |-> q.frame, pp |-> q.pp, id |-> id]

\* execute_command(*args, **kwargs) with q = [frame, m, ok, pp, h]: frame is
\* the command name, m the callbacks the caller chains on the promise, ok
\* whether every argument encodes, pp the post_proc keyword, h whether the
\* handler's put_back is chained
execute_command(S, c, q) ==
    LET p == S.conn[c] IN
    IF p.connected = 0 THEN [S EXCEPT !.exc = "ConnectionError"]
    ELSE IF RaisesInvalidData(q, p.charset)
    THEN [S EXCEPT !.exc = "InvalidData"]
    ELSE
    LET id == p.created + 1
        fr == Frame(q, id, p.charset)
        prom == [id |-> id, m |-> q.m, h |-> q.h,
                 pp |-> IF p.inTransaction THEN NoPP ELSE q.pp]
        S2 == [Send(S, c, fr) EXCEPT
                 !.conn[c].created = id,
                 !.conn[c].pipelined_replies =
                     IF p.pipelining
                     THEN Append(@, [id |-> id, res |-> <<"wait">>]) ELSE @,
                 !.conn[c].post_proc =
                     IF p.inTransaction THEN Append(@, q.pp) ELSE @]
    IN  IF p.replyQueue.pending = <<>>
        THEN [S2 EXCEPT !.conn[c].replyQueue.waiting = Append(@, prom)]
        ELSE Complete([S2 EXCEPT !.conn[c].replyQueue.pending = Tail(@)],
                      c, prom, Head(p.replyQueue.pending))

\* the body of the protocol method w.m called on connection c
Method(S, c, w) ==
    LET p == S.conn[c]
        Q(frame, m, ok, pp) ==
            [frame |-> frame, m |-> m, ok |-> ok, pp |-> pp, h |-> w.h]
    IN
    CASE w.m = "cmd" ->
           execute_command(S, c, Q("CMD", "cmd", w.ok, w.pp))
      [] w.m = "watch" ->
           LET S1 == IF ~p.inTransaction
                     THEN [S EXCEPT !.conn[c].inTransaction = TRUE,
                                    !.conn[c].unwatch_cc = "clear",
                                    !.conn[c].commit_cc = "noop"]
                     ELSE S
           IN  execute_command(S1, c, Q("WATCH", "watch", w.ok, NoPP))
      [] w.m \in {"multi", "multik"} ->
           LET S1 == [S EXCEPT !.conn[c].inTransaction = TRUE,
                               !.conn[c].inMulti = TRUE,
                               !.conn[c].unwatch_cc = "noop",
                               !.conn[c].commit_cc = "clear"]
           IN  IF w.m = "multik"
               THEN execute_command(S1, c, Q("WATCH", "mwatch", w.ok, NoPP))
               ELSE execute_command(S1, c, Q("MULTI", "multi", TRUE, NoPP))
      [] w.m = "commit" ->
           IF ~p.inTransaction THEN [S EXCEPT !.exc = "RedisError"]
           ELSE execute_command(S, c, Q("EXEC", "commit", TRUE, NoPP))
      [] w.m = "discard" ->
           IF ~p.inTransaction THEN [S EXCEPT !.exc = "RedisError"]
           ELSE LET S1 == clear_txstate(
                            [S EXCEPT !.conn[c].post_proc = <<>>,
                                      !.conn[c].transactions = 0], c)
                IN  execute_command(S1, c, Q("DISCARD", "discard", TRUE, NoPP))
      [] w.m = "unwatch" ->
           execute_command(
               CallCC([S EXCEPT !.conn[c].unwatched = p.inMulti,
                                !.ev.unw =
                                   [c |-> c, inTx |-> p.inTransaction,
                                    multi |-> p.inMulti,
                                    nclear |-> Len(S.ev.clear)]],
                      c, p.unwatch_cc),
               c, Q("UNWATCH", "unwatch", TRUE, NoPP))
      [] w.m = "eval" ->
           \* eval(script): evalsha when the digest is known, else _eval
           IF Digest \in p.script_hashes
           THEN execute_command(S, c, Q("EVALSHA", "evalsha", TRUE, NoPP))
           ELSE execute_command(S, c, Q("EVAL", "eval", TRUE, NoPP))
      [] w.m = "pipeline" ->
           LET S1 == [S EXCEPT !.conn[c].pipelining = TRUE,
                               !.conn[c].pipelined_commands = <<>>,
                               !.conn[c].pipelined_replies = <<>>,
                               !.handle[c] = @ \cup {"pipe"},
                               !.ev.done = [c |-> c, id |-> 0,
                                            m |-> "pipeline",
                                            out |-> <<"self">>]]
           IN  IF w.h THEN put_back(S1, c) ELSE S1
      [] w.m = "execute_pipeline" ->
           IF ~p.pipelining
           THEN [S EXCEPT !.exc = "RedisError",
                          !.ev.xp = [c |-> c, pipe |-> FALSE]]
           ELSE
           LET S1 == Flush([S EXCEPT !.ev.xp = [c |-> c, pipe |-> TRUE]], c)
               rs == p.pipelined_replies
               failed == {i \in 1..Len(rs) : IsFailure(rs[i].res)}
               waitg == {rs[i].id : i \in {j \in 1..Len(rs) :
                                              rs[j].res = <<"wait">>}}
           IN  IF failed # {}
               THEN PipelineReset(S1, c, FirstError(
                        rs[CHOOSE i \in failed : \A j \in failed : i <= j].res))
               ELSE IF waitg = {}
               THEN PipelineReset(S1, c, Results(rs, Len(rs)))
               ELSE [S1 EXCEPT !.conn[c].awaiting = waitg,
                               !.conn[c].executing = TRUE]

\* multi(keys): the state S1 after the lambda has called execute_command
\* ("MULTI"), whose promise the chain now waits for
Chained(S1) ==
    IF S1.exc # "" THEN [S1 EXCEPT !.ret = <<S1.exc>>, !.exc = ""]
    ELSE [S1 EXCEPT !.ret = <<"suspended">>]

\* _tx_started(response)
tx_started(r) ==
    IF IsException(r) THEN Failure(r)
    ELSE IF r # OK THEN <<"RedisError">> ELSE <<"self">>

\* ------------------------------------------ connectionMade and the factory
\* addConnection: the first-connection promise of factory f, the pool now
\* having size connections
FirstConnected_any(f, size) ==
    IF f.deferred
    THEN [f EXCEPT !.deferred = FALSE,
                   !.handlerPromise = Append(@, "handler")]
    ELSE f
FirstConnected(f, size) ==
    IF f.deferred /\ size = PoolSize
    THEN [f EXCEPT !.deferred = FALSE,
                   !.handlerPromise = Append(@, "handler")]
    ELSE f

\* RedisFactory.connectionError(why)
connectionError(f) ==
    IF f.deferred
    THEN [f EXCEPT !.deferred = FALSE,
                   !.handlerPromise = Append(@, "ValueError")]
    ELSE f

\* addConnection after connectionQueue.put(conn), in the state S1 it left
Added(S1, c) ==
    [S1 EXCEPT !.pool = Append(@, c),
               !.fac = FirstConnected(@, Len(S1.pool) + 1),
               !.ev.first =
                   IF FirstConnected(S1.fac, Len(S1.pool) + 1) # S1.fac
                   THEN [out |-> "handler", size |-> Len(S1.pool) + 1]
                   ELSE @,
               !.ev.reg = Append(@, c)]

\* RedisFactory.addConnection(conn)
addConnection(S, c) == Added(Put(S, c), c)

\* connectionMade: self.connected = 1; self.factory.addConnection(self)
Register(S, c) == addConnection([S EXCEPT !.conn[c].connected = 1], c)

\* connectionMade: the except branch of the AUTH or SELECT step
HandshakeFailed(S, c, stage) ==
    [S EXCEPT !.fac = connectionError(
                  [@ EXCEPT !.continueTrying = FALSE,
                            !.closing = IF S.conn[c].connected = 1
                                        THEN @ \cup {c} ELSE @]),
              !.conn[c].failed = TRUE,
              !.ev.first = IF connectionError(S.fac) # S.fac
                           THEN [out |-> "ValueError", size |-> Len(S.pool)]
                           ELSE @,
              !.ev.hfail = [c |-> c, stage |-> stage,
                            pending |-> S.fac.deferred]]

\* connectionMade at its yield, in the state S1 the call of auth or select
\* left
Handshaking(S1, c, stage) ==
    IF S1.exc # "" THEN HandshakeFailed([S1 EXCEPT !.exc = ""], c, stage)
    ELSE S1

\* connectionMade: response = yield self.auth(...) / self.select(...)
Handshake(S, c, frame, stage) ==
    Handshaking(execute_command(S, c, [frame |-> frame, m |-> stage,
                                       ok |-> TRUE, pp |-> NoPP,
                                       h |-> FALSE]), c, stage)

\* connectionMade from "if self.factory.dbid is not None" on
afterAuth(S, c) ==
    IF S.fac.dbid THEN Handshake(S, c, "SELECT", "select")
    ELSE Register(S, c)

\* RedisProtocol.connectionMade, up to its first yield
connectionMade_eager(S, c) == Register(S, c)
connectionMade(S, c) ==
    IF S.fac.password THEN Handshake(S, c, "AUTH", "auth")
    ELSE afterAuth(S, c)

\* handle_reply and the callbacks the method added to promise prom, run with
\* the reply r: the state after them, with the result in ret
Callbacks(S, c, prom, r) ==
    CASE prom.m \in {"cmd", "discard", "unwatch"} ->
           [S EXCEPT !.ret = IF IsException(r) THEN Failure(r)
                             ELSE IF prom.pp # NoPP THEN Apply(prom.pp, r)
                             ELSE r]
      [] prom.m \in {"watch", "multi"} ->
           \* (the handler's caller is given the connection)
           IF tx_started(r) = <<"self">> /\ prom.h
           THEN [S EXCEPT !.ret = <<"self">>, !.handle[c] = @ \cup {"tx"}]
           ELSE [S EXCEPT !.ret = tx_started(r)]
      [] prom.m = "mwatch" ->
           IF tx_started(r) = <<"self">>
           THEN Chained(execute_command(S, c,
                           [frame |-> "MULTI", m |-> "multi",
                            ok |-> TRUE, pp |-> NoPP, h |-> prom.h]))
           ELSE [S EXCEPT !.ret = tx_started(r)]
      [] prom.m = "auth" ->                  \* connectionMade after AUTH
           IF IsException(r)
           THEN HandshakeFailed([S EXCEPT !.ret = Failure(r)], c, "auth")
           ELSE [afterAuth([S EXCEPT !.conn[c].authed = TRUE], c)
                 EXCEPT !.ret = r]
      [] prom.m = "select" ->                \* connectionMade after SELECT
           IF IsException(r)
           THEN HandshakeFailed([S EXCEPT !.ret = Failure(r)], c, "select")
           ELSE Register([S EXCEPT !.conn[c].selected = TRUE, !.ret = r], c)
      [] prom.m = "eval" ->                                 \* _eval_success
           IF IsException(r) THEN [S EXCEPT !.ret = Failure(r)]
           ELSE [S EXCEPT !.conn[c].script_hashes = @ \cup {Digest},
                          !.ret = r]
      [] prom.m = "evalsha" ->           \* _evalsha_errback, _evalsha_failed
           IF r = NoScript
           THEN Chained(execute_command(
                    [S EXCEPT !.conn[c].script_hashes = @ \ {Digest}], c,
                    [frame |-> "EVAL", m |-> "eval", ok |-> TRUE,
                     pp |-> NoPP, h |-> prom.h]))
           ELSE [S EXCEPT !.ret = IF IsException(r) THEN Failure(r) ELSE r]
      [] prom.m = "commit" ->                               \* _commit_check
           IF IsException(r) THEN [S EXCEPT !.ret = Failure(r)]
           ELSE IF r = Nil
           THEN [clear_txstate([S EXCEPT !.conn[c].transactions = 0], c)
                 EXCEPT !.ret = <<"WatchError">>]
           ELSE [S EXCEPT !.ret = r]

\* the DeferredList of execute_pipeline is told the outcome out of promise
\* prom, in the state C the handler's put_back left
Gathered(C, c, prom, out) ==
    IF prom.id \in C.conn[c].awaiting
    THEN IF IsFailure(out) THEN PipelineReset(C, c, FirstError(out))
         ELSE IF C.conn[c].awaiting = {prom.id}
         THEN PipelineReset(C, c,
                  Results(SetPipelined(C.conn[c].listed, prom.id, out),
                          Len(C.conn[c].listed)))
         ELSE [C EXCEPT !.conn[c].awaiting = @ \ {prom.id},
                        !.conn[c].listed = SetPipelined(@, prom.id, out),
                        !.conn[c].pipelined_replies =
                            SetPipelined(@, prom.id, out)]
    ELSE [C EXCEPT !.conn[c].pipelined_replies =
                       SetPipelined(@, prom.id, out)]

\* promise prom has its outcome A.ret: the handler's put_back, then the
\* DeferredList of execute_pipeline
Settled(A, c, prom, rr) ==
    IF A.ret = <<"suspended">> THEN A
    ELSE
    LET d == [c |-> c, id |-> prom.id, m |-> prom.m, out |-> A.ret]
        B == [A EXCEPT !.conn[c].outs =
                           IF A.conn[c].pipelining
                           THEN Append(@, [id |-> prom.id, out |-> A.ret])
                           ELSE @,
                       !.ev.done = d,
                       !.ev.rej = IF rr.r = Lost
                                  THEN Append(@, [id |-> prom.id,
                                                  out |-> A.ret])
                                  ELSE @,
                       !.ev.reply = IF A.ev.recv.c = c /\ rr.n # 0
                                    THEN d ELSE @]
    IN  Gathered(IF prom.h THEN put_back(B, c) ELSE B, c, prom, A.ret)

\* The callbacks of promise prom run with the reply rr = [r, n] the reply
\* queue gave it: handle_reply, the callbacks of the method that made the
\* promise, the handler's put_back, the DeferredList of execute_pipeline.
Complete(S, c, prom, rr) ==
    Settled(Callbacks([S EXCEPT !.log[c] = Append(@, <<prom.id, rr.n>>)],
                      c, prom, rr.r), c, prom, rr)

\* ----------------------------------------------------------- RedisProtocol
\* DeferredQueue.put(reply) on the reply queue of c
replyReceived(S, c, rr) ==
    LET w == S.conn[c].replyQueue.waiting IN
    IF w # <<>>
    THEN LET i == PutWaiterIndex(w)
         IN  Complete([S EXCEPT !.conn[c].replyQueue.waiting =
                          SubSeq(w, 1, i - 1) \o SubSeq(w, i + 1, Len(w))],
                      c, w[i], rr)
    ELSE [S EXCEPT !.conn[c].replyQueue.pending = Append(@, rr)]

\* handleTransactionData after commit_cc(): the post-processing of reply
PostProcessed(S2, c, reply) ==
    LET es == Elems(reply)
        pp == S2.conn[c].post_proc
        f == IF pp = <<>> THEN <<>> ELSE Tail(pp)           \* post_proc[1:]
        k == Min(Len(f), Len(es))                           \* zip
        res == IF S2.conn[c].inTransaction
               THEN IF Len(f) = 1 /\ f[1] # NoPP
                    THEN Apply(f[1], reply) ELSE reply
               ELSE IF k = 0 THEN reply
               ELSE List([i \in 1..k |->
                            IF f[i] # NoPP THEN ApplyElem(f[i], es[i])
                            ELSE es[i]])
    IN  [S2 EXCEPT !.conn[c].post_proc = <<>>, !.ret = res]

\* handleTransactionData after the counter is decremented, in state S1
Committed(S1, c, reply) ==
    PostProcessed(IF S1.conn[c].transactions = 0
                  THEN CallCC(S1, c, S1.conn[c].commit_cc)
                  ELSE S1, c, reply)

handleTransactionData(S, c, reply) ==
    IF S.conn[c].inTransaction /\ IsList(reply)
    THEN Committed(IF S.conn[c].transactions > 0
                   THEN [S EXCEPT !.conn[c].transactions =
                                      @ - Len(Elems(reply))]
                   ELSE S, c, reply)
    ELSE [S EXCEPT !.ret = reply]

\* dataReceived: the reply the reader returned is recorded
Received(S, c, res) ==
    [S EXCEPT !.conn[c].nrecv = @ + 1,
              !.ev.recv = [c |-> c, res |-> res,
                           before |-> S.conn[c].transactions,
                           inTx |-> S.conn[c].inTransaction,
                           multi |-> S.conn[c].inMulti,
                           unwatched |-> S.conn[c].unwatched,
                           awaited |-> S.conn[c].awaiting]]

\* dataReceived: self.replyReceived(res), res being in S2.ret
Delivered(S2, c) ==
    replyReceived(S2, c, [r |-> S2.ret, n |-> S2.conn[c].nrecv])

\* dataReceived for one reply res returned by the reader
dataReceived_nocount(S, c, res) ==
    Delivered(IF res = QUEUED THEN [Received(S, c, res) EXCEPT !.ret = res]
              ELSE handleTransactionData(Received(S, c, res), c, res), c)
dataReceived(S, c, res) ==
    Delivered(IF res = QUEUED
              THEN [Received(S, c, res) EXCEPT
                      !.conn[c].transactions = @ + 1, !.ret = res]
              ELSE handleTransactionData(Received(S, c, res), c, res), c)

\* connectionLost: while self.replyQueue.waiting: replyReceived(...)
LoseAll_one(S, c) ==
    IF S.conn[c].replyQueue.waiting = <<>> THEN S
    ELSE replyReceived(S, c, [r |-> Lost, n |-> 0])
LoseAll(S, c) ==
    IF S.conn[c].replyQueue.waiting = <<>> THEN S
    ELSE LoseAll(replyReceived(S, c, [r |-> Lost, n |-> 0]), c)

\* ------------------------------------------------------------- the server
\* What the server answers to the frame fr in state s: the set of the
\* possible <<reply on the wire, next state>>.
ServerReset(s) == [s EXCEPT !.multi = FALSE, !.queue = <<>>,
                            !.watched = FALSE, !.dirty = FALSE]
ArrayOf(n) == <<"array">> \o [i \in 1..n |-> ElemVal(i)]
ServerStep(s, fr) ==
    CASE fr.cmd = "MULTI" ->
           IF s.multi THEN {<<(<<"error">>), s>>}
           ELSE {<<(<<"status", "OK">>), [s EXCEPT !.multi = TRUE]>>}
      [] fr.cmd = "WATCH" ->
           IF s.multi THEN {<<(<<"error">>), s>>}
           ELSE {<<(<<"status", "OK">>), [s EXCEPT !.watched = TRUE]>>}
      [] fr.cmd = "UNWATCH" ->
           IF s.multi
           THEN {<<(<<"status", "QUEUED">>),
                   [s EXCEPT !.queue = Append(@, fr.pp)]>>}
           ELSE {<<(<<"status", "OK">>), [s EXCEPT !.watched = FALSE]>>}
      [] fr.cmd = "CMD" ->
           IF s.multi
           THEN {<<(<<"status", "QUEUED">>),
                   [s EXCEPT !.queue = Append(@, fr.pp)]>>,
                 <<(<<"error">>), [s EXCEPT !.dirty = TRUE]>>}
           ELSE {<<(<<"bulk", ValOf(fr.id)>>), s>>, <<(<<"bulk", "QUEUED">>), s>>,
                 <<ArrayOf(2), s>>, <<(<<"error">>), s>>}
      [] fr.cmd \in {"AUTH", "SELECT"} ->
           {<<(<<"status", "OK">>), s>>, <<(<<"error">>), s>>}
      [] fr.cmd \in {"EVAL", "EVALSHA"} ->
           IF s.multi
           THEN {<<(<<"status", "QUEUED">>),
                   [s EXCEPT !.queue = Append(@, fr.pp)]>>}
           ELSE {<<(<<"bulk", ValOf(fr.id)>>), s>>,
                 IF fr.cmd = "EVAL" THEN <<(<<"error">>), s>>
                 ELSE <<(<<"noscript">>), s>>}
      [] fr.cmd = "EXEC" ->
           IF ~s.multi THEN {<<(<<"error">>), s>>}
           ELSE IF s.dirty THEN {<<(<<"error">>), ServerReset(s)>>}
           ELSE {<<ArrayOf(Len(s.queue)), ServerReset(s)>>}
                \cup (IF s.watched THEN {<<(<<"nil">>), ServerReset(s)>>}
                      ELSE {})
      [] fr.cmd = "DISCARD" ->
           IF ~s.multi THEN {<<(<<"error">>), s>>}
           ELSE {<<(<<"status", "OK">>), ServerReset(s)>>}

\* ------------------------------------------------------------- the actions
\* A caller holds the connection it was given by watch or multi until the
\* transaction is cleared, the one given by pipeline() until execute_pipeline
\* has finished; it drops a connection whose socket is down.
Held(T, c) == IF T.conn[c].connected = 0 THEN {} ELSE T.handle[c]

Store(T) ==
    /\ conn' = T.conn
    /\ cq' = T.cq
    /\ wire' = T.wire
    /\ handle' = [c \in Conns |-> Held(T, c)]
    /\ log' = T.log
    /\ ev' = T.ev

\* the result of a callback chain that may have reached the factory
StoreAll(T) ==
    /\ Store(T)
    /\ pool' = T.pool
    /\ fac' = T.fac

\* clientConnectionLost of the reconnecting factory, after the protocol's
\* connectionLost has run: retry() when continueTrying
Retried(T) ==
    [T EXCEPT !.fac.retries = IF T.fac.continueTrying THEN @ + 1 ELSE @,
              !.ev.lost.retry = T.fac.continueTrying]

\* the callers waiting for a connection are at most MaxWaiters + 1
StoreBounded(T) ==
    /\ Len(T.cq.waiting) <= MaxWaiters
    /\ Store(T)

\* a call on a held connection ends with the exception the method raised
Thrown(T, c, m) ==
    IF T.exc = "" THEN T
    ELSE [T EXCEPT !.exc = "",
                   !.ev.done = [c |-> c, id |-> 0, m |-> m,
                                out |-> <<T.exc>>]]

\* ------------------------------------------------------------- sharding
\* the replicas of a node on the ring (HashRing's default is 160) and the
\* sub-handlers a sharded handler is built with
Replicas == 2
MaxNodes == 2

\* the keys the callers use
KeyA == <<"a", "{", "X", "}", "b">>
KeyB == <<"c", "{", "X", "}">>
KeyC == <<"{", "X", "}", "b">>
KeyD == <<"{", "X", "}", "c">>
KeyE == <<"a", "{", "X", "}", "{", "Y", "}">>
KeyP == <<"k">>
Keys == {KeyA, KeyB, KeyC, KeyD, KeyE, KeyP}

\* zlib.crc32 on the strings looked up on the ring, by rank: crc32 differs on
\* any two of these strings
Hashed == << KeyP, <<"X">>, KeyC, <<"Y">>, KeyD, KeyA >>
CrcMax == Len(Hashed) - 1
crc32(str) == CHOOSE h \in 0..CrcMax : Hashed[h + 1] = str

\* ShardedMethods (some of its names), and names that are not in it
ShardedMethods == {"get", "delete", "rename"}
Unsharded == {"keys", "mset", "multi"}

\* HashRing.__init__ before the loop over nodes; ring[h] = 0: no entry
NewHashRing ==
    [nodes |-> <<>>, ring |-> [h \in 0..CrcMax |-> 0], sorted_keys |-> <<>>,
     built |-> FALSE]

RECURSIVE Insert(_, _), Sort(_), Bisect(_, _, _, _), Entered(_, _, _)

\* list.sort()
Insert(seq, x) ==
    IF seq = <<>> THEN <<x>>
    ELSE IF x <= Head(seq) THEN <<x>> \o seq
    ELSE <<Head(seq)>> \o Insert(Tail(seq), x)
Sort(seq) == IF seq = <<>> THEN <<>> ELSE Insert(Sort(Tail(seq)), Head(seq))

\* bisect.bisect(a, x), indices from 0
Bisect(a, x, lo, hi) ==
    IF lo < hi
    THEN IF x < a[((lo + hi) \div 2) + 1]
         THEN Bisect(a, x, lo, (lo + hi) \div 2)
         ELSE Bisect(a, x, ((lo + hi) \div 2) + 1, hi)
    ELSE lo

\* add_node: the loop over the replicas, crckeys[x] being
\* crc32("%s:%d" % (node._factory.uuid, x))
Entered(r, node, crckeys) ==
    IF crckeys = <<>> THEN r
    ELSE Entered([r EXCEPT !.ring[Head(crckeys)] = node,
                           !.sorted_keys = Append(@, Head(crckeys))],
                 node, Tail(crckeys))

\* HashRing.add_node(node)
add_node_unsorted(r, node, crckeys) ==
    Entered([r EXCEPT !.nodes = Append(@, node)], node, crckeys)
add_node(r, node, crckeys) ==
    [Entered([r EXCEPT !.nodes = Append(@, node)], node, crckeys)
        EXCEPT !.sorted_keys = Sort(@)]

\* HashRing.get_node_pos(key)[0]; 0 is None
get_node(r, key) ==
    IF \A h \in 0..CrcMax : r.ring[h] = 0 THEN 0
    ELSE r.ring[r.sorted_keys[
             Min(Bisect(r.sorted_keys, crc32(key), 0, Len(r.sorted_keys)),
                 Replicas * Len(r.nodes) - 1) + 1]]

\* _findhash.match(key) with the pattern .+\{(.*)\}.* : the dot matches no
\* newline, .+ and .* take as much as they can
Dots(key, lo, hi) == \A i \in lo..hi : key[i] # "\n"
Closes(key, i) ==
    {j \in (i + 1)..Len(key) : key[j] = "}" /\ Dots(key, i + 1, j - 1)}
Opens(key) ==
    {i \in 2..Len(key) :
        key[i] = "{" /\ Dots(key, 1, i - 1) /\ Closes(key, i) # {}}
Last(set) == CHOOSE i \in set : \A j \in set : j <= i
findhash(key) ==
    IF Opens(key) = {} THEN [matched |-> FALSE, group |-> <<>>]
    ELSE [matched |-> TRUE,
          group |-> SubSeq(key, Last(Opens(key)) + 1,
                           Last(Closes(key, Last(Opens(key)))) - 1)]

\* _wrap: the string the ring is asked for
Routed(key) == IF findhash(key).matched THEN findhash(key).group ELSE key

\* ShardedConnectionHandler._wrap(method, *args): the call it ends with
\* _wrap: getattr(node, method)(*args), node being the ring's answer for key
Forwarded(m, args, key, node) ==
    IF node = 0
    THEN [NoSharded EXCEPT !.m = m, !.args = args, !.key = key,
                           !.out = "AttributeError"]
    ELSE [NoSharded EXCEPT
             !.m = m, !.args = args, !.out = "forwarded",
             !.key = key, !.node = node,
             !.fwd = {[node |-> node, m |-> m, args |-> args]}]
wrapped(r, m, args, key) == Forwarded(m, args, key, get_node(r, key))
wrap_unchecked(r, m, args) ==
    [NoSharded EXCEPT !.m = m, !.args = args, !.out = "forwarded",
                      !.fwd = {[node |-> 1, m |-> m, args |-> args]}]
wrap(r, m, args) ==
    IF args = <<>> \/ args[1].t \notin {"str", "unicode"}
    THEN [NoSharded EXCEPT !.m = m, !.args = args, !.out = "ValueError"]
    ELSE wrapped(r, m, args, Routed(args[1].s))

\* ShardedConnectionHandler.__getattr__(method)(*args)
Sharded(r, m, args) ==
    IF m \in ShardedMethods THEN wrap(r, m, args)
    ELSE [NoSharded EXCEPT !.m = m, !.args = args,
                           !.out = "NotImplementedError: cannot be sharded"]

\* ShardedConnectionHandler.mget(keys): one node.mget per group of keys
mget(r, keys) ==
    LET node(i) == get_node(r, keys[i].s)
        group(n) == {i \in 1..Len(keys) : node(i) = n}
        listed(n) == [k \in 1..Cardinality(group(n)) |->
                        keys[CHOOSE i \in group(n) :
                               Cardinality({j \in group(n) : j < i}) = k - 1]]
    IN  IF \E i \in 1..Len(keys) : node(i) = 0
        THEN [NoSharded EXCEPT !.m = "mget", !.args = keys,
                               !.out = "AttributeError"]
        ELSE [NoSharded EXCEPT
                 !.m = "mget", !.args = keys, !.out = "forwarded",
                 !.fwd = {[node |-> n, m |-> "mget", args |-> listed(n)] :
                             n \in {node(i) : i \in 1..Len(keys)}}]

\* ---- replies as the hiredis reader returns them, and what they become ----
\* A value is [t, s, n, items]: a byte string (t = "str", bytes s), decoded
\* text ("unicode"), an int (n), a float (written s), a list (items), an
\* exception instance ("error", named by s) or None.
RawStr(s) == [t |-> "str", s |-> s, n |-> 0, items |-> <<>>]
Unicode(s) == [t |-> "unicode", s |-> s, n |-> 0, items |-> <<>>]
IntVal(n) == [t |-> "int", s |-> <<>>, n |-> n, items |-> <<>>]
FloatVal(s) == [t |-> "float", s |-> s, n |-> 0, items |-> <<>>]
ListVal(items) == [t |-> "list", s |-> <<>>, n |-> 0, items |-> items]
ErrVal(name) == [t |-> "error", s |-> <<name>>, n |-> 0, items |-> <<>>]
NoneVal == [t |-> "none", s |-> <<>>, n |-> 0, items |-> <<>>]

\* _NUM_FIRST_CHARS
NUM_FIRST_CHARS == {ToString(d) : d \in 0..9} \cup {"+", "-", "."}

RECURSIVE DigitsVal(_, _, _)
\* the number the digits d[i..] continue acc with
DigitsVal(d, i, acc) ==
    IF i > Len(d) THEN acc
    ELSE DigitsVal(d, i + 1, 10 * acc + (CHOOSE v \in 0..9 : ToString(v) = d[i]))

Signed(data) == data # <<>> /\ data[1] \in {"+", "-"}
Unsigned(data) == IF Signed(data) THEN Tail(data) ELSE data
AllDigits(d) == \A i \in 1..Len(d) : d[i] \in {ToString(v) : v \in 0..9}

\* int(data): <<n>>, or <<>> for ValueError
int(data) ==
    IF Unsigned(data) # <<>> /\ AllDigits(Unsigned(data))
    THEN <<(IF data[1] = "-" THEN -1 ELSE 1) * DigitsVal(Unsigned(data), 1, 0)>>
    ELSE <<>>

\* float(data) for data that holds a '.': <<data>>, or <<>> for ValueError
float(data) ==
    LET u == Unsigned(data)
        dots == {i \in 1..Len(u) : u[i] = "."}
    IN  IF /\ Cardinality(dots) = 1 /\ Len(u) > 1
           /\ \A i \in 1..Len(u) : i \in dots \/ u[i] \in {ToString(v) : v \in 0..9}
        THEN <<data>> ELSE <<>>

\* data.decode(charset): <<>> for UnicodeDecodeError (the byte FF is not
\* valid in any of the charsets)
decode(data, charset) ==
    IF \E i \in 1..Len(data) : data[i] = "FF" THEN <<>> ELSE <<data>>

\* el when no number was made of data
Undigested(data, charset) ==
    IF charset # "None" /\ decode(data.s, charset) # <<>>
    THEN Unicode(decode(data.s, charset)[1]) ELSE data

\* tryConvertData with its try/except spelled out
tryConvertData_strict(data, charset) ==
    IF data.t # "str" THEN data
    ELSE IF data.s # <<>> /\ data.s[1] \in NUM_FIRST_CHARS
    THEN IF \A i \in 1..Len(data.s) : data.s[i] # "."
         THEN IntVal(int(data.s)[1])
         ELSE FloatVal(data.s)
    ELSE Undigested(data, charset)

tryConvertData(data, charset) ==
    IF data.t # "str" THEN data
    ELSE IF data.s # <<>> /\ data.s[1] \in NUM_FIRST_CHARS
    THEN IF \A i \in 1..Len(data.s) : data.s[i] # "."
         THEN IF int(data.s) # <<>> THEN IntVal(int(data.s)[1])
              ELSE Undigested(data, charset)
         ELSE IF float(data.s) # <<>> THEN FloatVal(data.s)
              ELSE Undigested(data, charset)
    ELSE Undigested(data, charset)

\* dataReceived: what it makes of the reply res before it looks at the
\* transaction state
Converted(res, charset) ==
    IF res.t = "str" THEN tryConvertData(res, charset)
    ELSE IF res.t = "list"
    THEN ListVal([i \in 1..Len(res.items) |->
                  tryConvertData(res.items[i], charset)])
    ELSE res

NoReader == [charset |-> "utf-8", res |-> NoneVal, out |-> <<>>]

\* the bulk strings of the replies
Bulks == { <<>>, <<"1", "2">>, <<"+", "1">>, <<"-", "7">>, <<"0", ".", "5">>,
           <<"+", "i", "n", "f">>, <<"-", "i", "n", "f">>, <<"N", "a", "N">>,
           <<"1", "a">>, <<".">>, <<"-">>, <<"1", ".", "2", ".", "3">>,
           <<"a", "b">>, <<"FF", "a">> }

\* nesting depth of the array replies
MaxDepth == 2

RECURSIVE Replies(_)
\* the replies of depth at most d: scalars, arrays of one reply, and arrays
\* of a cursor and a reply (the shape of a SCAN reply)
Replies(d) ==
    IF d = 0
    THEN {RawStr(b) : b \in Bulks} \cup {IntVal(3), NoneVal, ErrVal("ResponseError")}
    ELSE Replies(d - 1)
         \cup {ListVal(<<x>>) : x \in Replies(d - 1)}
         \cup {ListVal(<<RawStr(<<"0">>), x>>) : x \in Replies(d - 1)}

\* ---- the subscriber and monitor connections ----
message == <<"m", "e", "s", "s", "a", "g", "e">>
pmessage == <<"p">> \o message
subscribe == <<"s", "u", "b", "s", "c", "r", "i", "b", "e">>
unsubscribe == <<"u", "n">> \o subscribe
psubscribe == <<"p">> \o subscribe
punsubscribe == <<"p">> \o unsubscribe
\* SubscriberFactory() / MonitorFactory(): a pool of one connection of the
\* given protocol class, connected and registered (free once in the
\* connection queue), with the server's end of its socket
NewSub(protocol) ==
    [ protocol |-> protocol,
      connected |-> 1,
      size |-> 1,           \* factory.size
      queue |-> 1,          \* times the connection is in connectionQueue
      getters |-> <<>>,     \* the handler calls waiting in getConnection
      replyQueue |-> [waiting |-> <<>>, pending |-> <<>>],
      created |-> 0,        \* promises created by execute_command
      wire |-> <<>>,        \* frames written, not yet read by the server
      inbox |-> <<>>,       \* replies the server has sent, not yet received
      channels |-> {},      \* the server's subscriptions of the socket
      patterns |-> {},
      monitoring |-> FALSE, \* the server feeds the socket
      published |-> 0,      \* messages published so far
      losing |-> FALSE,     \* connectionLost is in its while loop
      subscribed |-> FALSE, \* subscribe or psubscribe was issued
      nmsg |-> 0,           \* parity of the messageReceived calls
      msg |-> <<>>,         \* the messageReceived calls of the last step
      done |-> <<>>,        \* the promises the last step has fired
      put |-> 0,            \* its connectionQueue.put calls
      recv |-> <<>> ]       \* the reply it received, and the waiting promises

\* what the last step did is forgotten
Fresh(s) == [s EXCEPT !.msg = <<>>, !.done = <<>>, !.put = 0, !.recv = <<>>]

CommandOf(m) ==
    CASE m = "subscribe" -> "SUBSCRIBE" [] m = "unsubscribe" -> "UNSUBSCRIBE"
      [] m = "psubscribe" -> "PSUBSCRIBE" [] m = "punsubscribe" -> "PUNSUBSCRIBE"
      [] OTHER -> "MONITOR"

RECURSIVE sub_execute_command(_, _), Fired(_, _, _), cq_put(_)

\* DeferredQueue.put on factory.connectionQueue with the wrapper's callback
\* on the waiting getConnection: a dead connection is discarded and the
\* caller waits again
cq_put(s) ==
    IF s.getters = <<>> THEN [s EXCEPT !.queue = @ + 1, !.put = @ + 1]
    ELSE IF s.connected = 0
    THEN [s EXCEPT !.put = @ + 1,
                   !.getters = Append(Tail(@), Head(@))]
    ELSE sub_execute_command([s EXCEPT !.put = @ + 1, !.getters = Tail(@)],
                             Head(s.getters))

\* the promise prom fires with reply: handle_reply, then the put_back of the
\* handler's wrapper if the handler made the call
Fired(s, prom, reply) ==
    LET s2 == [s EXCEPT !.done = Append(@, [id |-> prom.id, m |-> prom.m,
                                            chans |-> prom.chans,
                                            out |-> reply])]
    IN  IF prom.h THEN cq_put(s2) ELSE s2

\* execute_command(CommandOf(w.m), *w.chans) on a connected connection
sub_execute_command(s, w) ==
    LET id == s.created + 1
        prom == [id |-> id, m |-> w.m, chans |-> w.chans, h |-> w.h]
        s2 == [s EXCEPT
                 !.created = id,
                 !.wire = Append(@, [cmd |-> CommandOf(w.m), chans |-> w.chans]),
                 !.subscribed = @ \/ w.m \in {"subscribe", "psubscribe"}]
    IN  IF s.replyQueue.pending = <<>>
        THEN [s2 EXCEPT !.replyQueue.waiting = Append(@, prom)]
        ELSE Fired([s2 EXCEPT !.replyQueue.pending = Tail(@)], prom,
                   Head(s.replyQueue.pending))

\* DeferredQueue.put on the reply queue
replyQueue_put(s, x) ==
    IF s.replyQueue.waiting = <<>>
    THEN [s EXCEPT !.replyQueue.pending = Append(@, x)]
    ELSE Fired([s EXCEPT !.replyQueue.waiting = Tail(@)],
               Head(s.replyQueue.waiting), x)

messageReceived(s, pattern, channel, msg) ==
    [s EXCEPT !.nmsg = 1 - @,
              !.msg = Append(@, [pattern |-> pattern, channel |-> channel,
                                 message |-> msg])]

\* reply[-k]
FromEnd(reply, k) == reply.items[Len(reply.items) + 1 - k]
LastOf(reply, k) ==
    ListVal(SubSeq(reply.items, Len(reply.items) + 1 - Min(k, Len(reply.items)),
                   Len(reply.items)))

\* SubscriberProtocol.replyReceived (replies always have three items or more)
SubscriberProtocol_replyReceived(s, reply) ==
    IF reply.t = "list"
    THEN IF FromEnd(reply, 3) = Unicode(message)
         THEN messageReceived(s, NoneVal, FromEnd(reply, 2), FromEnd(reply, 1))
         ELSE IF Len(reply.items) > 3 /\ FromEnd(reply, 4) = Unicode(pmessage)
         THEN messageReceived(s, FromEnd(reply, 3), FromEnd(reply, 2),
                              FromEnd(reply, 1))
         ELSE replyQueue_put(s, LastOf(reply, 3))
    ELSE IF reply.t = "error" THEN replyQueue_put(s, reply)
    ELSE s

\* MonitorProtocol.replyReceived: messageReceived(reply)
MonitorProtocol_replyReceived(s, reply) ==
    messageReceived(s, NoneVal, NoneVal, reply)

sub_replyReceived(s, reply) ==
    IF s.protocol = "MonitorProtocol"
    THEN MonitorProtocol_replyReceived(s, reply)
    ELSE SubscriberProtocol_replyReceived(s, reply)

Init ==
    /\ conn = [c \in Conns |->
                 IF c <= PoolSize
                 THEN [NewProtocol EXCEPT !.made = TRUE, !.connected = 1]
                 ELSE NewProtocol]
    /\ cq = [pending |-> [i \in 1..PoolSize |-> i], waiting |-> <<>>]
    /\ pool = [i \in 1..PoolSize |-> i]
    /\ wire = [c \in Conns |-> <<>>]
    /\ srv = [c \in Conns |-> NewServer]
    /\ handle = [c \in Conns |-> {}]
    /\ log = [c \in Conns |-> <<>>]
    /\ ev = NoEv
    /\ ncalls = 0
    /\ hashring = NewHashRing
    /\ sub = NewSub("SubscriberProtocol")
    /\ reader = NoReader
    /\ fac = [NewFactory(FALSE, TRUE) EXCEPT
                !.deferred = FALSE, !.handlerPromise = <<"handler">>]

\* connect(..., reconnect, isLazy=lazy): with isLazy the handler is returned
\* at once, the poolsize connection attempts still under way; without it the
\* handler is given once the pool is full
InitPool ==
    \E lazy \in BOOLEAN, reconnect \in BOOLEAN :
        /\ conn = [c \in Conns |->
                     IF c <= PoolSize /\ ~lazy
                     THEN [NewProtocol EXCEPT !.made = TRUE, !.connected = 1]
                     ELSE NewProtocol]
        /\ cq = [pending |-> IF lazy THEN <<>> ELSE [i \in 1..PoolSize |-> i],
                 waiting |-> <<>>]
        /\ pool = IF lazy THEN <<>> ELSE [i \in 1..PoolSize |-> i]
        /\ wire = [c \in Conns |-> <<>>]
        /\ srv = [c \in Conns |-> NewServer]
        /\ handle = [c \in Conns |-> {}]
        /\ log = [c \in Conns |-> <<>>]
        /\ ev = NoEv
        /\ ncalls = 0
        /\ hashring = NewHashRing
        /\ sub = NewSub("SubscriberProtocol")
        /\ reader = NoReader
        /\ fac = [NewFactory(lazy, reconnect) EXCEPT
                    !.retries = IF lazy THEN PoolSize ELSE 0,
                    !.deferred = lazy,
                    !.handlerPromise = IF lazy THEN <<>> ELSE <<"handler">>]

Methods == {"cmd", "watch", "multi", "multik", "commit", "discard",
            "unwatch", "pipeline", "execute_pipeline"}

\* the inputs of a call of method m: do its arguments encode, its post_proc
Inputs(m) ==
    [ m : {m},
      ok : IF m \in {"cmd", "watch", "multik"} THEN BOOLEAN ELSE {TRUE},
      pp : IF m = "cmd" THEN PPs ELSE {NoPP} ]

\* getConnection before its loop: if not self.size and not self.isLazy
NotConnected_always(size, lazy) == size = 0
NotConnected(size, lazy) == size = 0 /\ ~lazy

\* factory.getConnection(put_back) for the call w
Called(S, w) ==
    [S EXCEPT !.ev.call = [m |-> w.m, size |-> Len(pool), pb |-> w.pb,
                           nwait |-> Len(S.cq.waiting)]]

getConnection(S, w) ==
    IF NotConnected(Len(pool), isLazy)
    THEN [Called(S, w) EXCEPT !.ev.done = [c |-> 0, id |-> 0, m |-> w.m,
                                           out |-> <<"ConnectionError">>]]
    ELSE Get(Called(S, w), w)

\* handler.<m>(...): ConnectionHandler.__getattr__'s wrapper.  commit, discard
\* and execute_pipeline are called on the connection that multi, watch or
\* pipeline returned (api.py: "That object must be used for further
\* interactions within the transaction").
HandlerCall(m) ==
    /\ ncalls < MaxCalls
    /\ m \notin {"execute_pipeline", "commit", "discard"}
    /\ \E i \in Inputs(m) :
         StoreBounded(
             getConnection(Bundle, [m |-> i.m, ok |-> i.ok, pp |-> i.pp,
                                    h |-> TRUE, pb |-> FALSE,
                                    atDisc |-> FALSE]))
    /\ ncalls' = ncalls + 1
    /\ UNCHANGED <<pool, srv, fac, hashring, sub, reader>>

\* factory.getConnection(put_back) called by a caller of its own
GetConnection(pb) ==
    /\ ncalls < MaxCalls
    /\ StoreBounded(
           getConnection(Bundle, [m |-> "getConnection", ok |-> TRUE,
                                  pp |-> NoPP, h |-> FALSE, pb |-> pb,
                                  atDisc |-> FALSE]))
    /\ ncalls' = ncalls + 1
    /\ UNCHANGED <<pool, srv, fac, hashring, sub, reader>>

\* the callers that wait in getConnection now were waiting when disconnect()
\* was called
AtDisconnect(waiting) ==
    [i \in 1..Len(waiting) |-> [waiting[i] EXCEPT !.atDisc = TRUE]]

\* RedisFactory.waitForEmptyPool() on the factory f with a pool of size
waitForEmptyPool(f, size) ==
    IF size = 0
    THEN [f EXCEPT !.emptyPromises = Append(@, <<"None">>)]
    ELSE [f EXCEPT !.emptyPromises = Append(@, <<>>),
                   !.waitingForEmptyPool = @ \cup {Len(f.emptyPromises) + 1}]

\* RedisFactory._cancelWaitForEmptyPool(deferred), deferred being number id
cancelWaitForEmptyPool_keep(f, id) ==
    [f EXCEPT !.emptyPromises[id] = Append(@, "CancelledError")]
cancelWaitForEmptyPool(f, id) ==
    [f EXCEPT !.waitingForEmptyPool = @ \ {id},
              !.emptyPromises[id] = Append(@, "CancelledError")]

\* delConnection: the promises of f fired when the pool has size left
FireEmptyPool(f, size) ==
    IF size = 0 /\ f.waitingForEmptyPool # {}
    THEN [f EXCEPT !.waitingForEmptyPool = {},
                   !.emptyPromises =
                       [i \in 1..Len(@) |->
                          IF i \in f.waitingForEmptyPool
                          THEN Append(@[i], "None") ELSE @[i]]]
    ELSE f

\* cancel() called on the promise number id that disconnect() returned: the
\* canceller runs unless the promise has fired
Cancel(id) ==
    /\ ncalls < MaxCalls
    /\ id \in 1..Len(fac.emptyPromises)
    /\ fac' = IF fac.emptyPromises[id] = <<>>
              THEN cancelWaitForEmptyPool(fac, id) ELSE fac
    /\ ev' = [NoEv EXCEPT !.cancel =
                 [id |-> id, called |-> fac.emptyPromises[id] # <<>>]]
    /\ ncalls' = ncalls + 1
    /\ UNCHANGED <<conn, cq, pool, wire, srv, handle, log, hashring, sub, reader>>

\* ConnectionHandler.disconnect()
Disconnect ==
    /\ ncalls < MaxCalls
    /\ fac' = waitForEmptyPool(
                  [fac EXCEPT
                     !.continueTrying = FALSE,
                     !.disconnected = TRUE,
                     !.closing = @ \cup {pool[i] : i \in 1..Len(pool)}],
                  Len(pool))
    /\ ev' = [NoEv EXCEPT !.disc = [called |-> TRUE, size |-> Len(pool),
                                    resolved |-> Len(pool) = 0]]
    /\ cq' = [cq EXCEPT !.waiting = AtDisconnect(@)]
    /\ ncalls' = ncalls + 1
    /\ UNCHANGED <<conn, pool, wire, srv, handle, log, hashring, sub, reader>>

\* <m>(...) called on a connection c by a caller that kept a reference to
\* it (the protocol object getConnection once returned), the socket of c
\* being up or down
KeptCall(c, m) ==
    /\ ncalls < MaxCalls
    /\ conn[c].made
    /\ Store(Thrown(Method([Bundle EXCEPT
                              !.ev.dead = IF conn[c].connected = 0
                                          THEN [c |-> c, m |-> m,
                                                before |-> <<conn[c]>>]
                                          ELSE @],
                           c, [m |-> m, ok |-> TRUE, pp |-> NoPP,
                               h |-> FALSE]), c, m))
    /\ ncalls' = ncalls + 1
    /\ UNCHANGED <<pool, srv, fac, hashring, sub, reader>>

\* execute_command(*args) called on the connection c by a caller that kept a
\* reference to it; the callers wait for the reply of one command before
\* they send the next
Execute(c, args) ==
    /\ ncalls < MaxCalls
    /\ conn[c].connected = 1
    /\ \A d \in Conns : wire[d] = <<>>
    /\ Store(Thrown(execute_command(
                        [Bundle EXCEPT !.ev.args = args], c,
                        [frame |-> "CMD", m |-> "cmd", ok |-> TRUE,
                         pp |-> NoPP, h |-> FALSE, args |-> args]),
                    c, "cmd"))
    /\ ncalls' = ncalls + 1
    /\ UNCHANGED <<pool, srv, fac, hashring, sub, reader>>

\* <m>(...) called on the connection c a caller holds
DirectCall(c, m) ==
    /\ ncalls < MaxCalls
    /\ \/ "tx" \in handle[c] /\ m \in Methods \ {"pipeline"}
                             /\ (m = "execute_pipeline" => ~conn[c].executing)
       \/ "pipe" \in handle[c] /\ m = "cmd"
       \/ "pipe" \in handle[c] /\ m = "execute_pipeline"
                               /\ ~conn[c].executing
    /\ \E i \in Inputs(m) :
         Store(Thrown(Method(Bundle, c, [m |-> i.m, ok |-> i.ok,
                                         pp |-> i.pp, h |-> FALSE]), c, m))
    /\ ncalls' = ncalls + 1
    /\ UNCHANGED <<pool, srv, fac, hashring, sub, reader>>

\* the server answers the oldest frame written on c and the reply is
\* received by c (RedisProtocol.dataReceived)
ServerReply(c) ==
    /\ conn[c].connected = 1
    /\ wire[c] # <<>>
    /\ \E a \in ServerStep(srv[c], Head(wire[c])) :
         LET S == [Bundle EXCEPT !.wire[c] = Tail(@),
                      !.ev.asked = IF conn[c].inTransaction /\ ~conn[c].inMulti
                                   THEN <<Head(wire[c]).pp>> ELSE <<>>,
                      !.ev.exec = IF Head(wire[c]).cmd = "EXEC"
                                  THEN srv[c].queue ELSE <<>>]
         IN  /\ StoreAll(dataReceived(S, c, ReaderGets(a[1])))
             /\ srv' = [srv EXCEPT ![c] = a[2]]
    /\ UNCHANGED <<ncalls, hashring, sub, reader>>

Remove(seq, x) ==
    IF \E i \in 1..Len(seq) : seq[i] = x
    THEN LET i == CHOOSE j \in 1..Len(seq) :
                     seq[j] = x /\ \A k \in 1..(j - 1) : seq[k] # x
         IN  SubSeq(seq, 1, i - 1) \o SubSeq(seq, i + 1, Len(seq))
    ELSE seq

\* RedisProtocol.connectionLost, with RedisFactory.delConnection and the
\* clientConnectionLost of the reconnecting factory: a socket closed by
\* disconnect() reports its loss, or a connection is lost on its own
ConnectionLost(c) ==
    /\ conn[c].connected = 1
    /\ \/ c \in fac.closing
       \/ ~fac.continueTrying
       \/ Cardinality({d \in Conns : conn[d].made /\ conn[d].connected = 0})
              < MaxReconnects
    /\ StoreAll(Retried(LoseAll(
           [Bundle EXCEPT
              !.conn[c].connected = 0,
              !.conn[c].script_hashes = {},
              !.wire[c] = <<>>,
              !.pool = Remove(pool, c),
              !.fac = FireEmptyPool([fac EXCEPT !.closing = @ \ {c}],
                                    Len(Remove(pool, c))),
              !.ev.lost =
                  [c |-> c, closed |-> c \in fac.closing,
                   retry |-> fac.continueTrying,
                   fired |-> IF Len(Remove(pool, c)) = 0
                             THEN fac.waitingForEmptyPool
                             ELSE {},
                   waiting |->
                       [i \in 1..Len(conn[c].replyQueue.waiting) |->
                          conn[c].replyQueue.waiting[i].id],
                   hashes |-> conn[c].script_hashes]], c)))
    /\ srv' = [srv EXCEPT ![c] = NewServer]
    /\ UNCHANGED <<ncalls, hashring, sub, reader>>

\* The reactor completes a connection attempt of the reconnecting factory:
\* makeConnection sets connected and calls RedisProtocol.connectionMade
ConnectionMade(c) ==
    /\ ~conn[c].made
    /\ \A d \in Conns : d < c => conn[d].made
    /\ fac.retries > 0
    /\ StoreAll(connectionMade([Bundle EXCEPT !.conn[c].made = TRUE,
                                              !.conn[c].connected = 1,
                                              !.fac.retries = @ - 1], c))
    /\ UNCHANGED <<srv, ncalls, hashring, sub, reader>>

Next ==
    \/ \E m \in Methods : HandlerCall(m)
    \/ \E c \in Conns, m \in Methods : DirectCall(c, m)
    \/ \E c \in Conns : ServerReply(c)
    \/ \E c \in Conns : ConnectionLost(c)
    \/ \E c \in Conns : ConnectionMade(c)

Spec == Init /\ [][Next]_vars

\* The pool seen from its users: plain commands through the handler, calls
\* of getConnection, disconnect(), in lazy and in non-lazy mode.
NextPool ==
    \/ \E m \in {"cmd"} : HandlerCall(m)
    \/ \E pb \in BOOLEAN : GetConnection(pb)
    \/ Disconnect
    \/ \E c \in Conns : ServerReply(c)
    \/ \E c \in Conns : ConnectionLost(c)
    \/ \E c \in Conns : ConnectionMade(c)

SpecPool == InitPool /\ [][NextPool]_vars

\* connect(..., dbid, password, isLazy): the poolsize connection attempts are
\* under way, a password and a database number are configured or not
InitConnect ==
    \E lazy \in BOOLEAN, password \in BOOLEAN, dbid \in BOOLEAN :
        /\ conn = [c \in Conns |-> NewProtocol]
        /\ cq = [pending |-> <<>>, waiting |-> <<>>]
        /\ pool = <<>>
        /\ wire = [c \in Conns |-> <<>>]
        /\ srv = [c \in Conns |-> NewServer]
        /\ handle = [c \in Conns |-> {}]
        /\ log = [c \in Conns |-> <<>>]
        /\ ev = NoEv
        /\ ncalls = 0
        /\ hashring = NewHashRing
        /\ sub = NewSub("SubscriberProtocol")
        /\ reader = NoReader
        /\ fac = [NewFactory(lazy, TRUE) EXCEPT
                    !.password = password, !.dbid = dbid,
                    !.retries = PoolSize]

\* the caller has the handler: at once in lazy mode, else when the
\* first-connection promise has given it
HasHandler == isLazy \/ fac.handlerPromise = <<"handler">>

\* The connections being made, with their AUTH and SELECT steps, seen from
\* the factory and from the callers of getConnection.
NextConnect ==
    \/ HasHandler /\ \E pb \in BOOLEAN : GetConnection(pb)
    \/ \E c \in Conns : ServerReply(c)
    \/ \E c \in Conns : ConnectionLost(c)
    \/ \E c \in Conns : ConnectionMade(c)

SpecConnect == InitConnect /\ [][NextConnect]_vars

\* the arguments the callers pass: byte strings (empty, with the bytes of the
\* protocol's own delimiters), ints, unicode with and without a code point
\* outside ASCII
ArgValues ==
    { StrArg(<<>>), StrArg(<<"k">>), StrArg(<<"\r", "\n", "$", "1">>),
      IntArg(0), IntArg(7), IntArg(10), IntArg(123), IntArg(0 - 5),
      UnicodeArg(<<"a">>), UnicodeArg(<<"U+00E9", "a">>) }
MaxArgs == 2
ArgLists ==
    UNION { [1..n -> ArgValues] : n \in 1..MaxArgs }

\* connect(..., charset=cs): a pool whose connections are made
InitEncode ==
    \E cs \in {"utf-8", "ascii", "None"} :
        /\ conn = [c \in Conns |->
                     IF c <= PoolSize
                     THEN [NewProtocol EXCEPT !.made = TRUE, !.connected = 1,
                                              !.charset = cs]
                     ELSE NewProtocol]
        /\ cq = [pending |-> [i \in 1..PoolSize |-> i], waiting |-> <<>>]
        /\ pool = [i \in 1..PoolSize |-> i]
        /\ wire = [c \in Conns |-> <<>>]
        /\ srv = [c \in Conns |-> NewServer]
        /\ handle = [c \in Conns |-> {}]
        /\ log = [c \in Conns |-> <<>>]
        /\ ev = NoEv
        /\ ncalls = 0
        /\ hashring = NewHashRing
        /\ sub = NewSub("SubscriberProtocol")
        /\ reader = NoReader
        /\ fac = [NewFactory(FALSE, TRUE) EXCEPT
                    !.deferred = FALSE, !.handlerPromise = <<"handler">>]

\* Commands with spelled-out arguments, one at a time on a connection, and
\* their replies.
NextEncode ==
    \/ \E c \in Conns, args \in ArgLists :
          Execute(c, <<StrArg(<<"S", "E", "T">>)>> \o args)
    \/ \E c \in Conns : ServerReply(c)

SpecEncode == InitEncode /\ [][NextEncode]_vars

\* HashRing.__init__: add_node for the next sub-handler, whose replicas hash
\* to crckeys
AddNode(crckeys) ==
    /\ ~hashring.built
    /\ Len(hashring.nodes) < MaxNodes
    /\ hashring' = add_node(hashring, Len(hashring.nodes) + 1, crckeys)
    /\ ev' = NoEv
    /\ UNCHANGED <<conn, cq, pool, wire, srv, handle, log, ncalls, fac,
                   sub, reader>>

\* ShardedConnectionHandler.__init__ returns
Built ==
    /\ ~hashring.built
    /\ hashring' = [hashring EXCEPT !.built = TRUE]
    /\ ev' = NoEv
    /\ UNCHANGED <<conn, cq, pool, wire, srv, handle, log, ncalls, fac,
                   sub, reader>>

\* handler.<m>(*args) on the sharded handler
ShardedCall(m, args) ==
    /\ hashring.built
    /\ ev' = [NoEv EXCEPT !.sh = Sharded(hashring, m, args)]
    /\ UNCHANGED <<conn, cq, pool, wire, srv, handle, log, ncalls, fac,
                   hashring, sub, reader>>

\* handler.pipeline() on the sharded handler
ShardedPipeline ==
    /\ hashring.built
    /\ ev' = [NoEv EXCEPT
                !.sh = [NoSharded EXCEPT
                          !.m = "pipeline",
                          !.out = "NotImplementedError: not supported across shards"]]
    /\ UNCHANGED <<conn, cq, pool, wire, srv, handle, log, ncalls, fac,
                   hashring, sub, reader>>

\* handler.mget(keys) on the sharded handler
ShardedMget(keys) ==
    /\ hashring.built
    /\ ev' = [NoEv EXCEPT !.sh = mget(hashring, keys)]
    /\ UNCHANGED <<conn, cq, pool, wire, srv, handle, log, ncalls, fac,
                   hashring, sub, reader>>

\* the arguments of the calls on the sharded handler: no argument, a key or
\* a number first, a second key
SecondKeys == {KeyC, KeyA}
ShardedArgs ==
    LET first == {StrArg(k) : k \in Keys} \cup {IntArg(7)} IN
    {<<>>} \cup {<<a>> : a \in first}
           \cup {<<a, StrArg(k)>> : a \in first, k \in SecondKeys}
MgetKeys == {KeyP, KeyA}
MgetArgs ==
    {<<StrArg(k)>> : k \in MgetKeys}
        \cup {<<StrArg(k), StrArg(l)>> : k \in MgetKeys, l \in MgetKeys}

\* A sharded handler over up to MaxNodes sub-handlers and the calls on it.
NextShard ==
    \/ \E crckeys \in [1..Replicas -> 0..CrcMax] : AddNode(crckeys)
    \/ Built
    \/ \E m \in ShardedMethods, args \in ShardedArgs : ShardedCall(m, args)
    \/ \E m \in Unsharded : ShardedCall(m, <<StrArg(KeyP)>>)
    \/ ShardedPipeline
    \/ \E keys \in MgetArgs : ShardedMget(keys)

SpecShard == Init /\ [][NextShard]_vars

\* C27: on a sharded handler pipeline() fails with "not supported across
\* shards", a name outside ShardedMethods fails with "cannot be sharded", a
\* name of ShardedMethods called without a textual first argument fails with
\* an error, and none of these calls a sub-handler.
C27_ShardedRejections ==
    /\ ev.sh.m = "pipeline" =>
          /\ ev.sh.out = "NotImplementedError: not supported across shards"
          /\ ev.sh.fwd = {}
    /\ ev.sh.m \in Unsharded =>
          /\ ev.sh.out = "NotImplementedError: cannot be sharded"
          /\ ev.sh.fwd = {}
    /\ (/\ ev.sh.m \in ShardedMethods
        /\ \/ ev.sh.args = <<>>
           \/ ev.sh.args[1].t \notin {"str", "unicode"}) =>
          /\ ev.sh.out \notin {"", "forwarded"}
          /\ ev.sh.fwd = {}

C27_Witness ==
    /\ ev.sh.m = "get"
    /\ ev.sh.args = <<IntArg(7)>>
    /\ ev.sh.out = "ValueError"
    /\ Len(hashring.nodes) = MaxNodes

\* the first {...} group of a key that has one, else the whole key
FirstOpen(key) ==
    {i \in 1..Len(key) :
        /\ key[i] = "{" /\ \E j \in (i + 1)..Len(key) : key[j] = "}"
        /\ \A h \in 1..(i - 1) :
              ~(key[h] = "{" /\ \E j \in (h + 1)..Len(key) : key[j] = "}")}
FirstClose(key, i) ==
    CHOOSE j \in (i + 1)..Len(key) :
        key[j] = "}" /\ \A h \in (i + 1)..(j - 1) : key[h] # "}"
ShardKey(key) ==
    IF FirstOpen(key) = {} THEN key
    ELSE SubSeq(key, (CHOOSE i \in FirstOpen(key) : TRUE) + 1,
                FirstClose(key, CHOOSE i \in FirstOpen(key) : TRUE) - 1)

\* C28: a command forwarded for a key goes to the node the ring returns for
\* the key's first {...} group, or for the whole key when it has no group:
\* for prefix{X}suffix, with any prefix and suffix, the node depends on X
\* only.
C28_ShardKeyRouting ==
    (ev.sh.out = "forwarded" /\ ev.sh.m \in ShardedMethods) =>
        ev.sh.node = get_node(hashring, ShardKey(ev.sh.args[1].s))

\* the position the claim gives for a looked-up string: the number of
\* sorted_keys entries not above its crc32, at most the last index
Position(str) ==
    Min(Cardinality({i \in 1..Len(hashring.sorted_keys) :
                        hashring.sorted_keys[i] <= crc32(str)}),
        Len(hashring.sorted_keys) - 1)

\* C29: on a ring with nodes, the lookup of a string returns
\* ring[sorted_keys[min(bisect(sorted_keys, crc32), len(sorted_keys) - 1)]],
\* one of the ring's nodes, and a forwarded call went to the node the ring
\* (which the call leaves as it is) returns for its shard key; sorted_keys
\* is sorted and has Replicas entries per node after every add_node.
C29_RingLookup ==
    /\ \A i \in 1..(Len(hashring.sorted_keys) - 1) :
          hashring.sorted_keys[i] <= hashring.sorted_keys[i + 1]
    /\ Len(hashring.sorted_keys) = Replicas * Len(hashring.nodes)
    /\ hashring.nodes # <<>> =>
          \A h \in 1..Len(Hashed) :
              /\ get_node(hashring, Hashed[h]) =
                    hashring.ring[hashring.sorted_keys[Position(Hashed[h]) + 1]]
              /\ get_node(hashring, Hashed[h]) \in
                    {hashring.nodes[n] : n \in 1..Len(hashring.nodes)}
    /\ ev.sh.out = "forwarded" /\ ev.sh.m \in ShardedMethods =>
          ev.sh.node = get_node(hashring, ev.sh.key)

C29_Witness ==
    /\ Len(hashring.nodes) = MaxNodes
    /\ ev.sh.out = "forwarded" /\ ev.sh.m = "get"
    /\ crc32(ev.sh.key) >= hashring.sorted_keys[Len(hashring.sorted_keys)]
    /\ hashring.sorted_keys[1] < hashring.sorted_keys[Len(hashring.sorted_keys)]

\* the arguments of a sharded command that name keys: get(key),
\* rename(oldkey, newkey), delete(key, ...)
KeyArgs(m, args) == IF m = "get" THEN {1} ELSE 1..Len(args)

\* C30: every command the sharded handler forwards names only keys that the
\* ring gives to the sub-handler it is forwarded to; a command whose keys
\* belong to different sub-handlers is not forwarded.
C30_NoCrossShard ==
    \A f \in ev.sh.fwd :
        f.m \in ShardedMethods =>
            \A i \in KeyArgs(f.m, f.args) :
                get_node(hashring, Routed(f.args[i].s)) = f.node

\* A reader of the request format: `*<argc>\r\n`, then argc times
\* `$<len>\r\n<len bytes>\r\n`, and nothing after.
RECURSIVE ReadNum(_, _, _), ReadArgs(_, _, _, _)
Digits == {ToString(d) : d \in 0..9}
DigitVal(ch) == CHOOSE d \in 0..9 : ToString(d) = ch
ReadNum(b, i, acc) ==
    IF i <= Len(b) /\ b[i] \in Digits
    THEN ReadNum(b, i + 1, 10 * acc + DigitVal(b[i]))
    ELSE [n |-> acc, i |-> i]
AtCRLF(b, i) == i + 1 <= Len(b) /\ b[i] = "\r" /\ b[i + 1] = "\n"
Unreadable == [ok |-> FALSE, args |-> <<>>]
ReadArg(b, i, k, acc, num) ==
    IF num.i > i + 1 /\ AtCRLF(b, num.i) /\ AtCRLF(b, num.i + 2 + num.n)
    THEN ReadArgs(b, num.i + 4 + num.n, k - 1,
                  Append(acc, SubSeq(b, num.i + 2, num.i + 1 + num.n)))
    ELSE Unreadable
ReadArgs(b, i, k, acc) ==
    IF k = 0
    THEN IF i = Len(b) + 1 THEN [ok |-> TRUE, args |-> acc] ELSE Unreadable
    ELSE IF i <= Len(b) /\ b[i] = "$"
    THEN ReadArg(b, i, k, acc, ReadNum(b, i + 1, 0))
    ELSE Unreadable
ReadHead(b, num) ==
    IF num.i > 2 /\ AtCRLF(b, num.i)
    THEN ReadArgs(b, num.i + 2, num.n, <<>>)
    ELSE Unreadable
Request(b) ==
    IF b # <<>> /\ b[1] = "*" THEN ReadHead(b, ReadNum(b, 2, 0)) ELSE Unreadable

\* p is the ASCII decimal form of the integer n
IsDecimal(p, n) ==
    LET d == IF n < 0 THEN Tail(p) ELSE p IN
    /\ p # <<>> /\ d # <<>>
    /\ n < 0 => p[1] = "-"
    /\ \A i \in 1..Len(d) : d[i] \in Digits
    /\ Len(d) > 1 => d[1] # "0"
    /\ ReadNum(d, 1, 0).n = (IF n < 0 THEN 0 - n ELSE n)

\* p is the byte encoding of the argument a
IsEncoding(p, a) ==
    CASE a.t = "str" -> p = a.s
      [] a.t = "int" -> IsDecimal(p, a.n)
      [] a.t = "unicode" ->
            p = IF a.s = <<"a">> THEN <<"a">> ELSE <<"C3", "A9", "a">>

FrameOf(bytes, args) ==
    /\ Request(bytes).ok
    /\ Len(Request(bytes).args) = Len(args)
    /\ \A i \in 1..Len(args) : IsEncoding(Request(bytes).args[i], args[i])

\* C25: the bytes execute_command writes for the arguments A are `*len(A)`,
\* CRLF, then for each argument in order `$len(a)`, CRLF, the bytes of a,
\* CRLF, and nothing else; a str is sent as it is and an int as its ASCII
\* decimal form.
C25_FrameBytes ==
    (ev.args # <<>> /\ ev.write # <<>>) =>
        /\ Len(ev.write) = 1
        /\ Len(ev.write[1].frames) = 1
        /\ FrameOf(ev.write[1].frames[1].bytes, ev.args)

C25_Witness ==
    /\ ev.write # <<>>
    /\ Len(ev.args) = 3
    /\ ev.args[2] = StrArg(<<"\r", "\n", "$", "1">>)
    /\ ev.args[3] = IntArg(123)

\* C26: a call through the handler that gets a connection at once and fails
\* with the encoding error has written nothing, added no promise to the
\* reply queue of the connection it ran on, and left that connection's
\* transaction flag as it was when the connection was handed to the call;
\* watch and multi included.
C26_EncodingErrorNoEffect ==
    (ev.call.m # "" /\ ev.done.out = <<"InvalidData">> /\ Len(ev.hand) = 1) =>
        /\ ev.write = <<>>
        /\ ev.hand[1].c = ev.done.c
        /\ InFlight(conn[ev.done.c]) = ev.hand[1].busy
        /\ conn[ev.done.c].inTransaction = ev.hand[1].inTx

\* The loss of connections seen from the callers of commands and scripts,
\* through the handler or on a protocol object they kept.
NextLoss ==
    \/ \E m \in {"eval"} : HandlerCall(m)
    \/ \E c \in Conns, m \in {"cmd", "eval"} : KeptCall(c, m)
    \/ \E c \in Conns : ServerReply(c)
    \/ \E c \in Conns : ConnectionLost(c)
    \/ \E c \in Conns : ConnectionMade(c)

SpecLoss == Init /\ [][NextLoss]_vars

\* The shutdown of the pool seen from the callers of getConnection: no
\* command is in flight, the callers take connections, wait for one, and
\* disconnect() is called.
NextShutdown ==
    \/ \E pb \in BOOLEAN : GetConnection(pb)
    \/ Disconnect
    \/ \E id \in 1..MaxCalls : Cancel(id)
    \/ \E c \in Conns : ConnectionLost(c)
    \/ \E c \in Conns : ConnectionMade(c)

\* a socket closed by loseConnection() reports the loss of its connection
LostClosed(c) == c \in fac.closing /\ ConnectionLost(c)

\* The reactor runs what is due: a closed socket reports its loss, a
\* connection attempt that is under way or scheduled is completed.
FairShutdown ==
    \A c \in Conns : /\ WF_vars(LostClosed(c))
                      /\ WF_vars(ConnectionMade(c))

SpecShutdown == InitPool /\ [][NextShutdown]_vars /\ FairShutdown

\* ------------------------------------------------------------- the claims
\* number of times connection c is in the free-connection queue
InQueue(c) == Cardinality({i \in 1..Len(cq.pending) : cq.pending[i] = c})
Live(c) == conn[c].made /\ conn[c].connected = 1

\* C1: on every connection the k-th promise created by execute_command is
\* the k-th promise completed, and when a reply of the server completes it,
\* that reply is the k-th reply the connection received.
C1_FifoOrder ==
    \A c \in Conns : \A k \in 1..Len(log[c]) :
        /\ log[c][k][1] = k
        /\ log[c][k][2] # 0 => log[c][k][2] = k

\* a reply of the server has completed the second promise of a connection
\* while a later promise of the same connection is still waiting
C1_Witness ==
    \E c \in Conns :
        /\ ev.recv.c = c /\ ev.done.c = c /\ ev.done.id = 2
        /\ Len(log[c]) = 2
        /\ conn[c].replyQueue.waiting # <<>>

\* connection c was put on the free-connection queue by the last step
Returned(c) == \E i \in 1..Len(ev.put) : ev.put[i].c = c
\* connection c was handed out by getConnection in the last step
HandedOut(c) == \E i \in 1..Len(ev.hand) : ev.hand[i].c = c

\* C2: a connection in transaction mode is not in the free-connection
\* queue, getConnection never hands out a connection that is in transaction
\* mode or that a caller holds for a transaction, and watch on a held
\* connection resolves with that connection.
C2_Exclusive ==
    /\ \A c \in Conns : conn[c].inTransaction => InQueue(c) = 0
    /\ \A i \in 1..Len(ev.hand) :
          ~ev.hand[i].inTx /\ "tx" \notin ev.hand[i].held
    /\ ev.done.m = "watch" /\ ~IsFailure(ev.done.out)
          => ev.done.out = <<"self">>

AtRest ==
    /\ cq.waiting = <<>>
    /\ \A c \in Conns : conn[c].replyQueue.waiting = <<>>

\* C3: at rest every live connection that is neither in transaction mode nor
\* pipelining is in the free-connection queue exactly once.
C3_FreeExactlyOnce ==
    AtRest =>
        \A c \in Conns :
            Live(c) /\ ~conn[c].inTransaction /\ ~conn[c].pipelining
                => InQueue(c) = 1

\* C4 as stated: no connection is put on the free-connection queue while its
\* socket is down.
C4_NoDeadPut ==
    \A i \in 1..Len(ev.put) : ev.put[i].up = 1

\* C4 as amended: a dead connection can be put on the queue (put_back after
\* the connection was lost), but getConnection hands out live connections
\* only and discards dead ones only.
C4_DeadNeverHandedOut ==
    /\ \A i \in 1..Len(ev.hand) : ev.hand[i].up = 1
    /\ \A i \in 1..Len(ev.drop) : conn[ev.drop[i]].connected = 0

\* getConnection has discarded a dead connection and handed out the live
\* connection queued behind it
C4_Witness ==
    /\ ev.drop # <<>>
    /\ ev.hand # <<>>
    /\ \E c \in Conns : conn[c].made /\ conn[c].connected = 0

FreeConns == {c \in Conns : Live(c) /\ InQueue(c) >= 1}
PinnedConns == {c \in Conns : Live(c) /\ c \notin FreeConns
                   /\ (conn[c].inTransaction \/ conn[c].pipelining)}
BusyConns == {c \in Conns : Live(c) /\ c \notin FreeConns \cup PinnedConns
                   /\ conn[c].replyQueue.waiting # <<>>}
DownCount == PoolSize - Cardinality({c \in Conns : Live(c)})

C6_QueuedCompletesNothing ==
    ev.recv.res = QUEUED =>
        /\ conn[ev.recv.c].transactions = ev.recv.before + 1
        /\ ev.reply.c = 0

\* C6 as amended: a QUEUED reply increments the counter by one and is given
\* to the oldest pending promise of the connection, which completes with the
\* value QUEUED (with its own post_proc applied, if it has one; a promise of
\* watch or multi, which expects OK, fails with RedisError).
C6_QueuedCompletesHead ==
    ev.recv.res = QUEUED =>
        /\ conn[ev.recv.c].transactions = ev.recv.before + 1
        /\ ev.reply.c = ev.recv.c
        /\ ev.reply.id = Len(log[ev.recv.c])
        /\ ev.reply.id = conn[ev.recv.c].nrecv
        /\ \/ ev.reply.out \in {QUEUED, Apply("f", QUEUED)}
           \/ /\ ev.reply.m \in {"watch", "multi", "mwatch"}
              /\ ev.reply.out = <<"RedisError">>

\* the server has queued a command of an open MULTI and the caller's promise
\* for that command is completed with QUEUED
C6_Witness ==
    /\ ev.recv.res = QUEUED
    /\ ev.reply.m = "cmd" /\ ev.reply.out = QUEUED
    /\ srv[ev.recv.c].multi /\ Len(srv[ev.recv.c].queue) = 1
    /\ conn[ev.recv.c].inTransaction /\ conn[ev.recv.c].transactions = 1

\* C7: outside a transaction the counter of queued commands is 0.
C7_ZeroOutsideTransaction ==
    \A c \in Conns :
        Live(c) /\ ~conn[c].inTransaction /\ ~srv[c].multi
            => conn[c].transactions = 0

\* the array commit() must resolve with: the i-th element of the EXEC reply,
\* post-processed by the post_proc of the i-th queued command
Expected(pps) ==
    List([i \in 1..Len(pps) |->
            IF pps[i] # NoPP THEN ApplyElem(pps[i], ElemVal(i))
            ELSE ElemVal(i)])

\* C8: when EXEC returns an array to a connection in transaction mode whose
\* counter equals the number of commands the server queued, and that array
\* closes the transaction, commit() resolves with the array of the elements
\* post-processed position by position, and the connection has left
\* transaction mode and is in the free queue.
C8_CommitArray ==
    /\ ev.reply.m = "commit" /\ Head(ev.recv.res) = "list"
    /\ ev.recv.before = Len(ev.exec)
    /\ ev.recv.inTx /\ Returned(ev.reply.c) /\ ~HandedOut(ev.reply.c)
    => /\ ev.reply.out = Expected(ev.exec)
       /\ InQueue(ev.reply.c) >= 1
       /\ ~conn[ev.reply.c].inTransaction

\* C9: when EXEC returns nil, commit() fails with WatchError, the
\* transaction state is cleared and the connection is in the free queue
\* once (or already handed to a waiting caller).
C9_WatchErrorClears ==
    ev.reply.m = "commit" /\ ev.recv.res = Nil =>
        /\ ev.reply.out = <<"WatchError">>
        /\ conn[ev.reply.c].transactions = 0
        /\ conn[ev.reply.c].post_proc = <<>>
        /\ \/ ~conn[ev.reply.c].inTransaction /\ InQueue(ev.reply.c) = 1
           \/ HandedOut(ev.reply.c)

\* C10: when the promise of commit() is completed by a reply on a live
\* connection, the connection has left transaction mode and is back in the
\* free queue (or already handed to a waiting caller).
C10_SessionEndsAtExec ==
    ev.reply.m = "commit" /\ ev.recv.c = ev.reply.c /\ ev.reply.c # 0 =>
        /\ Returned(ev.reply.c)
        /\ \/ ~conn[ev.reply.c].inTransaction /\ InQueue(ev.reply.c) = 1
           \/ HandedOut(ev.reply.c)

\* the unwatch() call of the last step has cleared the transaction state of
\* its connection and put the connection on the free-connection queue
UnwatchCleared ==
    /\ Len(ev.clear) > ev.unw.nclear
    /\ ev.clear[ev.unw.nclear + 1] = ev.unw.c
    /\ Returned(ev.unw.c)

\* C11 (unwatch): unwatch() called in a transaction session clears the
\* transaction state and puts the connection back if and only if multi() was
\* not called in the session; outside a session it clears nothing.
C11_UnwatchClearsIffNoMulti ==
    ev.unw.c # 0 =>
        UnwatchCleared <=> (ev.unw.inTx /\ ~ev.unw.multi)

\* C11: unwatch() clears if and only if no multi() was called in the session,
\* and in a session where unwatch() was called after multi() the connection
\* leaves transaction mode when the promise of commit() is completed by the
\* reply to EXEC.
C11_UnwatchThenCommit ==
    /\ C11_UnwatchClearsIffNoMulti
    /\ ev.reply.m = "commit" /\ ev.recv.inTx /\ ev.recv.unwatched
          => \/ ~conn[ev.reply.c].inTransaction
             \/ HandedOut(ev.reply.c)

Ids(frames) == [i \in 1..Len(frames) |-> frames[i].id]
\* the writes the function by has made on the socket of c in the last step
WritesBy(c, by) ==
    {i \in 1..Len(ev.write) : ev.write[i].c = c /\ ev.write[i].by = by}

\* C12: execute_command writes no frame while the connection is pipelining
\* (no buffered frame is on the wire before execute_pipeline), and
\* execute_pipeline makes exactly one write, of the frames of the commands
\* issued since pipeline(), in the order they were issued.
C12_PipelineSingleWrite ==
    /\ \A i \in 1..Len(ev.write) :
          ev.write[i].by = "execute_command" =>
              ~ev.write[i].pipe /\ Len(ev.write[i].frames) = 1
    /\ \A c \in Conns :
          conn[c].pipelining /\ ~conn[c].executing =>
              \A i \in 1..Len(wire[c]) :
                  \A j \in 1..Len(conn[c].pipelined_commands) :
                      wire[c][i].id # conn[c].pipelined_commands[j].id
    /\ ev.flush.c # 0 =>
          /\ Cardinality(WritesBy(ev.flush.c, "execute_pipeline")) = 1
          /\ \A i \in WritesBy(ev.flush.c, "execute_pipeline") :
                Ids(ev.write[i].frames) = ev.flush.ids
          /\ \A k \in 1..(Len(ev.flush.ids) - 1) :
                ev.flush.ids[k] < ev.flush.ids[k + 1]

\* execute_pipeline has written two buffered commands in one write and waits
\* for their replies
C12_Witness ==
    /\ ev.flush.c # 0 /\ Len(ev.flush.ids) = 2
    /\ conn[ev.flush.c].executing
    /\ Len(wire[ev.flush.c]) >= 2

\* the outcome of promise id of the connection whose pipeline has finished
OutcomeIs(id, out) ==
    \E j \in 1..Len(ev.pdone.outs) :
        ev.pdone.outs[j].id = id /\ ev.pdone.outs[j].out = out

BuffersEmpty(c) ==
    conn[c].pipelined_commands = <<>> /\ conn[c].pipelined_replies = <<>>

\* C14: when execute_pipeline() has finished, with a value or with a failure,
\* the connection is not pipelining and both buffers are empty (as they are
\* whenever the connection is not pipelining); while it is pipelining the
\* two buffers have the same length.
C14_GuaranteedRelease ==
    /\ ev.pdone.c # 0 =>
          ~conn[ev.pdone.c].pipelining /\ BuffersEmpty(ev.pdone.c)
    /\ ev.xp.c # 0 /\ ~conn[ev.xp.c].executing =>
          ~conn[ev.xp.c].pipelining /\ BuffersEmpty(ev.xp.c)
    /\ \A c \in Conns :
          IF conn[c].pipelining
          THEN Len(conn[c].pipelined_commands) = Len(conn[c].pipelined_replies)
          ELSE BuffersEmpty(c)

\* execute_pipeline has failed on the error reply to the first of its two
\* commands, the second still unanswered, and the connection is reset
C14_Witness ==
    /\ ev.pdone.c # 0 /\ ev.pdone.c = ev.recv.c
    /\ IsFailure(ev.pdone.out) /\ Len(ev.pdone.ids) = 2
    /\ conn[ev.pdone.c].replyQueue.waiting # <<>>
    /\ ~conn[ev.pdone.c].pipelining /\ BuffersEmpty(ev.pdone.c)

\* C15: a connection a caller obtained from handler.pipeline() is, until
\* execute_pipeline() has finished, neither in the free-connection queue nor
\* handed out by getConnection.
C15_PipelinePinned ==
    /\ \A c \in Conns : "pipe" \in handle[c] => InQueue(c) = 0
    /\ \A i \in 1..Len(ev.hand) : "pipe" \notin ev.hand[i].held

\* C16: a connection on which a command dispatched by the handler is in
\* flight is not in the free-connection queue, getConnection hands out no
\* such connection, and a caller waits for a connection only when every live
\* connection has a command in flight or is pinned by a transaction or a
\* pipeline.
C16_InFlightHoldsConnection ==
    /\ \A c \in Conns : Live(c) /\ InFlight(conn[c]) => InQueue(c) = 0
    /\ \A i \in 1..Len(ev.hand) : ~ev.hand[i].busy
    /\ cq.waiting # <<>> =>
          \A c \in Conns :
              Live(c) => \/ conn[c].replyQueue.waiting # <<>>
                         \/ conn[c].inTransaction
                         \/ conn[c].pipelining

\* the connections of the last step's hand-outs with put_back as given
HandOuts(x, pb) ==
    {i \in 1..Len(ev.hand) : ev.hand[i].c = x /\ ev.hand[i].pb = pb}

\* C17: every connection getConnection returns has its socket up when it is
\* returned; the connections it drops are dead, and after dropping it goes
\* on to the next connection of the queue, waiting only when the queue is
\* exhausted; with put_back=True it puts the returned connection on the
\* queue once, with put_back=False not at all.
C17_GetConnectionLive ==
    /\ \A i \in 1..Len(ev.hand) : ev.hand[i].up = 1
    /\ \A i \in 1..Len(ev.drop) : conn[ev.drop[i]].connected = 0
    /\ ev.call.m # "" /\ ev.drop # <<>> /\ ev.hand = <<>> =>
          cq.pending = <<>> /\ Len(cq.waiting) = ev.call.nwait + 1
    /\ \A x \in Conns :
          /\ Count(ev.pb, x) = Cardinality(HandOuts(x, TRUE))
          /\ Count(ev.pb, x) <= Count([i \in 1..Len(ev.put) |-> ev.put[i].c], x)
    /\ Len(ev.hand) = 1 /\ ev.call.m = "getConnection" =>
          /\ ev.hand[1].inq = IF ev.call.pb THEN 1 ELSE 0
          /\ InQueue(ev.hand[1].c) = IF ev.call.pb THEN 1 ELSE 0
          /\ Len(ev.put) = IF ev.call.pb THEN 1 ELSE 0

\* getConnection(put_back=True) has dropped the dead connection at the head
\* of the queue, returned the live one behind it and put that one back
C17_Witness ==
    /\ ev.call.m = "getConnection" /\ ev.call.pb
    /\ ev.drop # <<>> /\ Len(ev.hand) = 1
    /\ ev.hand[1].up = 1 /\ ev.pb = <<ev.hand[1].c>>
    /\ cq.pending = <<ev.hand[1].c>>

\* C18: a call of getConnection (by the handler for a command, or direct)
\* made when the pool size is 0 fails at once with ConnectionError in
\* non-lazy mode, taking nothing from the queue and not waiting; in lazy
\* mode it does not fail and waits on the queue.
C18_FailFastOrWait ==
    ev.call.m # "" /\ ev.call.size = 0 =>
        IF ~isLazy
        THEN /\ ev.done = [c |-> 0, id |-> 0, m |-> ev.call.m,
                           out |-> <<"ConnectionError">>]
             /\ ev.hand = <<>> /\ ev.drop = <<>>
             /\ Len(cq.waiting) = ev.call.nwait
        ELSE /\ ev.done.out # <<"ConnectionError">>
             /\ ev.hand = <<>>
             /\ Len(cq.waiting) = ev.call.nwait + 1

\* in non-lazy mode a handler command issued after disconnect() has emptied
\* the pool has failed with ConnectionError
C18_Witness ==
    /\ ev.call.m = "cmd" /\ ev.call.size = 0
    /\ ~isLazy /\ fac.disconnected
    /\ ev.done.out = <<"ConnectionError">>

\* C19 (what disconnect() does): it sets continueTrying false and closes
\* every socket of the pool; its promise is resolved at once exactly when the
\* pool is empty, an unresolved promise is resolved by the connection loss
\* that empties the pool and by none before, and the loss of a socket it
\* closed schedules no reconnection.
C19_DisconnectSafety ==
    /\ ev.disc.called =>
          /\ ~fac.continueTrying
          /\ \A i \in 1..Len(pool) : pool[i] \in fac.closing
          /\ ev.disc.resolved <=> Len(pool) = 0
    /\ fac.waitingForEmptyPool # {} => Len(pool) > 0
    /\ ev.lost.fired # {} => Len(pool) = 0
    /\ ev.lost.c # 0 /\ ev.lost.closed => ~ev.lost.retry

\* C19: when every socket disconnect() closed reports the loss of its
\* connection, a promise of disconnect() that is not resolved yet is
\* eventually resolved.
C19_DisconnectResolves ==
    (fac.waitingForEmptyPool # {}) ~> (fac.waitingForEmptyPool = {})

\* a call of getConnection that was waiting when disconnect() was called is
\* still waiting
Stranded == \E i \in 1..Len(cq.waiting) : cq.waiting[i].atDisc

\* C20: every call of getConnection that is waiting for a connection when
\* disconnect() is called eventually stops waiting.
C20_WaitersCancelled == Stranded ~> ~Stranded

\* C21: the loss of a connection fails every promise that was waiting in its
\* reply queue, in order, with ConnectionError, takes the connection out of
\* the pool and forgets its script digests; a connection that is down stays
\* so, and a command called on it afterwards fails with ConnectionError and
\* leaves the protocol object, its socket and its buffers as they were.
C21_LossRejectsAll ==
    /\ ev.lost.c # 0 =>
          /\ [i \in 1..Len(ev.rej) |-> ev.rej[i].id] = ev.lost.waiting
          /\ \A i \in 1..Len(ev.rej) : ev.rej[i].out = <<"ConnectionError">>
    /\ \A c \in Conns :
          conn[c].made /\ conn[c].connected = 0 =>
              /\ conn[c].replyQueue.waiting = <<>>
              /\ conn[c].script_hashes = {}
              /\ \A i \in 1..Len(pool) : pool[i] # c
    /\ ev.dead.c # 0 =>
          /\ ev.done = [c |-> ev.dead.c, id |-> 0, m |-> ev.dead.m,
                        out |-> <<"ConnectionError">>]
          /\ conn[ev.dead.c] = ev.dead.before[1]
          /\ ev.write = <<>> /\ wire[ev.dead.c] = <<>>

\* a connection that had a script digest cached and a command in flight has
\* been lost
C21_Witness ==
    /\ ev.lost.c # 0 /\ ev.lost.hashes # {}
    /\ ev.lost.waiting # <<>> /\ Len(ev.rej) = Len(ev.lost.waiting)

\* C22: a promise of waitForEmptyPool() is fired at most once; it is in the
\* waiter set exactly while it has not fired; the connection loss that
\* empties the pool resolves every promise of the set and empties the set;
\* cancelling a promise that has not fired takes it out of the set and fails
\* it with CancelledError, and a promise that has fired is left as it is.
C22_EmptyPoolWaitersOnce ==
    /\ \A id \in 1..Len(fac.emptyPromises) :
          /\ Len(fac.emptyPromises[id]) <= 1
          /\ id \in fac.waitingForEmptyPool <=> fac.emptyPromises[id] = <<>>
    /\ fac.waitingForEmptyPool \subseteq 1..Len(fac.emptyPromises)
    /\ ev.lost.c # 0 /\ Len(pool) = 0 =>
          /\ fac.waitingForEmptyPool = {}
          /\ \A id \in ev.lost.fired : fac.emptyPromises[id] = <<"None">>
    /\ ev.cancel.id # 0 /\ ~ev.cancel.called =>
          /\ ev.cancel.id \notin fac.waitingForEmptyPool
          /\ fac.emptyPromises[ev.cancel.id] = <<"CancelledError">>

\* the pool has emptied and resolved a promise of disconnect() while an
\* earlier one, cancelled before, stays failed with CancelledError
C22_Witness ==
    /\ ev.lost.c # 0 /\ Len(pool) = 0 /\ ev.lost.fired # {}
    /\ \E id \in 1..Len(fac.emptyPromises) :
          fac.emptyPromises[id] = <<"CancelledError">>

\* C23: the first-connection promise is fired at most once; it is pending
\* exactly while it has not fired, and then the pool has fewer than PoolSize
\* connections; it is resolved with the handler by the addConnection that
\* brings the pool to PoolSize, or rejected by the connectionMade that gives
\* up first, and a connectionMade that gives up finds it pending or fired.
C23_FirstConnectionOnce ==
    /\ Len(fac.handlerPromise) <= 1
    /\ fac.deferred <=> fac.handlerPromise = <<>>
    /\ fac.deferred => Len(pool) < PoolSize
    /\ fac.deferred => \A c \in Conns : ~conn[c].failed
    /\ ev.first.out = "handler" =>
          /\ ev.first.size = PoolSize /\ ev.reg # <<>>
          /\ fac.handlerPromise = <<"handler">>
    /\ ev.first.out = "ValueError" =>
          /\ ev.hfail.c # 0 /\ ev.hfail.pending
          /\ fac.handlerPromise = <<"ValueError">>
    /\ ev.hfail.c # 0 /\ ev.hfail.pending => ev.first.out = "ValueError"

\* the pool has filled for the first time after an earlier connection was
\* lost, and the promise has been resolved with the handler
C23_Witness ==
    /\ ev.first.out = "handler" /\ Len(pool) = PoolSize
    /\ \E c \in Conns : conn[c].made /\ conn[c].connected = 0

\* the connections getConnection may hand out: those of the queue
Registered(c) ==
    \/ \E i \in 1..Len(pool) : pool[i] = c
    \/ \E i \in 1..Len(cq.pending) : cq.pending[i] = c
    \/ \E i \in 1..Len(ev.hand) : ev.hand[i].c = c
    \/ \E i \in 1..Len(ev.put) : ev.put[i].c = c

\* C24: a connection is in the pool or on the connection queue, or is handed
\* to a caller, only when the configured AUTH and the configured SELECT have
\* been answered by OK, SELECT after AUTH; a connection whose AUTH or SELECT
\* failed has its socket closed, reconnection is turned off, it is never
\* registered, and the first-connection promise, if pending, is rejected.
C24_RegisteredAfterHandshake ==
    /\ \A c \in Conns :
          /\ Registered(c) =>
                /\ fac.password => conn[c].authed
                /\ fac.dbid => conn[c].selected
                /\ ~conn[c].failed
          /\ conn[c].selected /\ fac.password => conn[c].authed
          /\ conn[c].failed =>
                /\ ~Registered(c)
                /\ conn[c].connected = 1 => c \in fac.closing
                /\ ~fac.continueTrying
                /\ ~fac.deferred
    /\ ev.hfail.c # 0 =>
          /\ conn[ev.hfail.c].failed
          /\ ev.hfail.pending => fac.handlerPromise = <<"ValueError">>
          /\ ev.hfail.stage = "auth" =>
                (~conn[ev.hfail.c].authed /\ ~conn[ev.hfail.c].selected)

\* with a password and a database number configured, AUTH was answered by
\* OK and SELECT by an error while the first-connection promise was pending
C24_Witness ==
    /\ ev.hfail.c # 0 /\ ev.hfail.stage = "select" /\ ev.hfail.pending
    /\ conn[ev.hfail.c].authed /\ fac.password

\* the frame fr written on c ends a session: DISCARD, or UNWATCH when multi()
\* was not called on c
EndsSession(fr, c) ==
    \/ fr.cmd = "DISCARD"
    \/ fr.cmd = "UNWATCH" /\ ev.unw.c = c /\ ~ev.unw.multi

\* C34: in the step in which discard(), or unwatch() outside MULTI, writes
\* its frame on a connection, no other frame is written on that connection
\* before it: the connection is released to a waiting caller only after the
\* DISCARD or UNWATCH frame.
C34_FrameBeforeRelease ==
    \A i \in 1..Len(ev.write) :
        \A k \in 1..Len(ev.write[i].frames) :
            EndsSession(ev.write[i].frames[k], ev.write[i].c) =>
                \A j \in 1..(i - 1) : ev.write[j].c # ev.write[i].c

\* C35: in a watch-only session (WATCH sent, multi() not called, the caller
\* holding the connection watch() gave it) the promise of a command
\* completed by the array reply to that command resolves with the
\* reply post-processed by the command's own post_proc, or with the reply
\* itself when the command has none.
C35_WatchOnlyPostProc ==
    (/\ ev.asked # <<>>
     /\ ev.reply.m = "cmd" /\ ev.reply.c = ev.recv.c
     /\ "tx" \in handle[ev.recv.c]
     /\ IsList(ev.recv.res)) =>
        ev.reply.out = IF ev.asked[1] # NoPP
                       THEN Apply(ev.asked[1], ev.recv.res)
                       ELSE ev.recv.res

\* the last step wrote the frame cmd on connection c
Wrote(c, cmd) ==
    \E i \in 1..Len(ev.write) :
        ev.write[i].c = c /\ ev.write[i].frames[1].cmd = cmd

\* C38: when the array reply to EXEC closes a transaction whose counter
\* equals the number of queued commands and the connection it releases is
\* handed at once to a waiting caller that starts a transaction with
\* multi(), commit() resolves with the array post-processed position by
\* position, and the post_proc list of the connection holds exactly the
\* entry of the new MULTI.
C38_ReleaseAtExec ==
    (/\ ev.reply.m = "commit" /\ IsList(ev.recv.res)
     /\ ev.recv.before = Len(ev.exec) /\ ev.recv.inTx
     /\ HandedOut(ev.reply.c) /\ Wrote(ev.reply.c, "MULTI")) =>
        /\ ev.reply.out = Expected(ev.exec)
        /\ conn[ev.reply.c].post_proc = <<NoPP>>

\* the frame of promise id is on its way to the server of connection c, or
\* is buffered for the next execute_pipeline
FrameKept(c, id) ==
    \/ \E i \in 1..Len(wire[c]) : wire[c][i].id = id
    \/ \E j \in 1..Len(conn[c].pipelined_commands) :
          conn[c].pipelined_commands[j].id = id

\* C39: when execute_pipeline() has finished and reset the buffers, every
\* promise that a command issued on the connection itself left waiting in
\* the reply queue has its frame written to the socket (or buffered for the
\* next execute_pipeline), also when the command was issued after
\* execute_pipeline() wrote the buffer and before it finished awaiting the
\* replies.
C39_NoCommandLost ==
    ev.pdone.c # 0 =>
        \A k \in 1..Len(conn[ev.pdone.c].replyQueue.waiting) :
            ~conn[ev.pdone.c].replyQueue.waiting[k].h =>
                FrameKept(ev.pdone.c, conn[ev.pdone.c].replyQueue.waiting[k].id)

\* C40: a forwarded sharded mget issues one MGET per owning sub-handler,
\* the groups hold every requested key once, and each key goes to the
\* sub-handler to which the single-key commands route it, that is the node
\* of its {hash-tag} when it carries one.
C40_MgetRouting ==
    (ev.sh.m = "mget" /\ ev.sh.out = "forwarded") =>
        /\ \A f, g \in ev.sh.fwd : f.node = g.node => f = g
        /\ \A i \in 1..Len(ev.sh.args) :
              \E f \in ev.sh.fwd :
                  /\ \E k \in 1..Len(f.args) : f.args[k] = ev.sh.args[i]
                  /\ f.node = get_node(hashring, Routed(ev.sh.args[i].s))

\* ---- a subscriber or monitor connection at work ----
MaxSubCalls == 3
MaxPublished == 1

ChannelA == <<"a">>
Channel7 == <<"7">>
\* the calls made on a subscriber: [m, chans]
SubCalls == { [m |-> "subscribe", chans |-> <<ChannelA>>],
              [m |-> "subscribe", chans |-> <<ChannelA, Channel7>>],
              [m |-> "unsubscribe", chans |-> <<ChannelA>>],
              [m |-> "psubscribe", chans |-> <<ChannelA, message>>],
              [m |-> "punsubscribe", chans |-> <<message>>] }
Payloads == {<<"h", "i">>, <<"4", "2">>}

OtherVars == <<conn, cq, pool, wire, srv, handle, log, ev, fac, hashring,
               reader>>

\* handler.m(chans): the wrapper of ConnectionHandler.__getattr__ on the
\* factory of the connection
SubHandlerCall(m, chans) ==
    /\ ncalls < MaxSubCalls /\ ~sub.losing
    /\ sub' =
         IF sub.size = 0
         THEN [Fresh(sub) EXCEPT
                 !.done = <<[id |-> 0, m |-> m, chans |-> chans,
                             out |-> ErrVal("ConnectionError")]>>]
         ELSE IF sub.queue > 0
         THEN sub_execute_command([Fresh(sub) EXCEPT !.queue = @ - 1],
                                  [m |-> m, chans |-> chans, h |-> TRUE])
         ELSE [Fresh(sub) EXCEPT
                 !.getters = Append(@, [m |-> m, chans |-> chans, h |-> TRUE])]
    /\ ncalls' = ncalls + 1
    /\ UNCHANGED OtherVars

\* conn.m(chans) on the connection itself
SubDirectCall(m, chans) ==
    /\ ncalls < MaxSubCalls /\ ~sub.losing
    /\ sub' =
         IF sub.connected = 0
         THEN [Fresh(sub) EXCEPT
                 !.done = <<[id |-> 0, m |-> m, chans |-> chans,
                             out |-> ErrVal("ConnectionError")]>>]
         ELSE sub_execute_command(Fresh(sub),
                                  [m |-> m, chans |-> chans, h |-> FALSE])
    /\ ncalls' = ncalls + 1
    /\ UNCHANGED OtherVars

RECURSIVE Confirmed(_, _, _)
\* the server runs cmd for each of chans, one confirmation per channel
Confirmed(s, cmd, chans) ==
    IF chans = <<>> THEN s
    ELSE
    LET ch == Head(chans)
        s2 == CASE cmd = "SUBSCRIBE" ->
                     [s EXCEPT !.channels = @ \cup {ch}]
                 [] cmd = "UNSUBSCRIBE" ->
                     [s EXCEPT !.channels = @ \ {ch}]
                 [] cmd = "PSUBSCRIBE" ->
                     [s EXCEPT !.patterns = @ \cup {ch}]
                 [] OTHER ->
                     [s EXCEPT !.patterns = @ \ {ch}]
        kind == CASE cmd = "SUBSCRIBE" -> subscribe
                  [] cmd = "UNSUBSCRIBE" -> unsubscribe
                  [] cmd = "PSUBSCRIBE" -> psubscribe
                  [] OTHER -> punsubscribe
        count == Cardinality(s2.channels) + Cardinality(s2.patterns)
    IN  Confirmed([s2 EXCEPT !.inbox =
                       Append(@, ListVal(<<RawStr(kind), RawStr(ch),
                                           IntVal(count)>>))],
                  cmd, Tail(chans))

\* the server reads the oldest frame: it runs the command, or refuses it
SubServer ==
    /\ sub.wire # <<>> /\ ~sub.losing
    /\ \E refuse \in BOOLEAN :
         LET fr == Head(sub.wire)
             s == [Fresh(sub) EXCEPT !.wire = Tail(@)]
         IN  sub' =
               IF refuse
               THEN [s EXCEPT !.inbox = Append(@, ErrVal("ResponseError"))]
               ELSE IF fr.cmd = "MONITOR"
               THEN [s EXCEPT !.monitoring = TRUE,
                              !.inbox = Append(@, RawStr(<<"O", "K">>))]
               ELSE Confirmed(s, fr.cmd, fr.chans)
    /\ UNCHANGED <<ncalls>> /\ UNCHANGED OtherVars

\* another client publishes payload on channel ch
Publish(ch, payload) ==
    /\ sub.published < MaxPublished /\ ~sub.losing /\ sub.connected = 1
    /\ ch \in sub.channels \cup sub.patterns
    /\ sub' = [Fresh(sub) EXCEPT
                 !.published = @ + 1,
                 !.inbox = @ \o (IF ch \in sub.channels
                                 THEN <<ListVal(<<RawStr(message), RawStr(ch),
                                                  RawStr(payload)>>)>>
                                 ELSE <<>>)
                           \o (IF ch \in sub.patterns
                               THEN <<ListVal(<<RawStr(pmessage), RawStr(ch),
                                                RawStr(ch), RawStr(payload)>>)>>
                               ELSE <<>>)]
    /\ UNCHANGED <<ncalls>> /\ UNCHANGED OtherVars

\* the server feeds a monitoring socket with a command another client ran
Feed(line) ==
    /\ sub.published < MaxPublished /\ ~sub.losing /\ sub.connected = 1
    /\ sub.monitoring
    /\ sub' = [Fresh(sub) EXCEPT !.published = @ + 1,
                                 !.inbox = Append(@, RawStr(line))]
    /\ UNCHANGED <<ncalls>> /\ UNCHANGED OtherVars

\* dataReceived on the connection: conversion, then replyReceived (the
\* connection is in no transaction)
SubReceive ==
    /\ sub.inbox # <<>> /\ ~sub.losing /\ sub.connected = 1
    /\ sub' = sub_replyReceived(
                 [Fresh(sub) EXCEPT
                    !.inbox = Tail(@),
                    !.recv = <<[res |-> Head(sub.inbox),
                                waiting |-> sub.replyQueue.waiting]>>],
                 Converted(Head(sub.inbox), "utf-8"))
    /\ UNCHANGED <<ncalls>> /\ UNCHANGED OtherVars

\* connectionLost up to its while loop (the socket was closed by the peer,
\* or by stop() or disconnect())
SubConnectionLost ==
    /\ sub.connected = 1
    /\ sub' = [Fresh(sub) EXCEPT !.connected = 0, !.size = 0,
                                 !.wire = <<>>, !.inbox = <<>>,
                                 !.monitoring = FALSE,
                                 !.channels = {}, !.patterns = {},
                                 !.losing = TRUE]
    /\ UNCHANGED <<ncalls>> /\ UNCHANGED OtherVars

\* one test of `while self.replyQueue.waiting` in connectionLost, and the
\* body it runs
SubLostLoop ==
    /\ sub.losing
    /\ sub' = IF sub.replyQueue.waiting = <<>>
              THEN [Fresh(sub) EXCEPT !.losing = FALSE]
              ELSE sub_replyReceived(Fresh(sub), ErrVal("ConnectionError"))
    /\ UNCHANGED <<ncalls>> /\ UNCHANGED OtherVars

NextSub ==
    \/ \E w \in SubCalls : SubHandlerCall(w.m, w.chans)
    \/ \E w \in SubCalls : SubDirectCall(w.m, w.chans)
    \/ SubServer
    \/ \E ch \in {ChannelA, message}, payload \in Payloads : Publish(ch, payload)
    \/ SubReceive
    \/ SubConnectionLost
    \/ SubLostLoop

SpecSub == Init /\ [][NextSub]_vars

InitMonitor ==
    /\ conn = [c \in Conns |->
                 IF c <= PoolSize
                 THEN [NewProtocol EXCEPT !.made = TRUE, !.connected = 1]
                 ELSE NewProtocol]
    /\ cq = [pending |-> [i \in 1..PoolSize |-> i], waiting |-> <<>>]
    /\ pool = [i \in 1..PoolSize |-> i]
    /\ wire = [c \in Conns |-> <<>>]
    /\ srv = [c \in Conns |-> NewServer]
    /\ handle = [c \in Conns |-> {}]
    /\ log = [c \in Conns |-> <<>>]
    /\ ev = NoEv
    /\ ncalls = 0
    /\ hashring = NewHashRing
    /\ fac = [NewFactory(FALSE, TRUE) EXCEPT
                !.deferred = FALSE, !.handlerPromise = <<"handler">>]
    /\ sub = NewSub("MonitorProtocol")
    /\ reader = NoReader

NextMonitor ==
    \/ SubHandlerCall("monitor", <<>>)
    \/ SubDirectCall("monitor", <<>>)
    \/ SubServer
    \/ \E line \in {<<"1", ".", "5", " ", "g", "e", "t">>, <<"4", "2">>} :
          Feed(line)
    \/ SubReceive
    \/ SubConnectionLost
    \/ SubLostLoop

\* connectionLost runs its loop without a pause
SpecMonitor == InitMonitor /\ [][NextMonitor]_vars /\ WF_vars(SubLostLoop)

\* the reader returns a reply on a connection with the given charset
InitCoerce ==
    /\ conn = [c \in Conns |->
                 IF c <= PoolSize
                 THEN [NewProtocol EXCEPT !.made = TRUE, !.connected = 1]
                 ELSE NewProtocol]
    /\ cq = [pending |-> [i \in 1..PoolSize |-> i], waiting |-> <<>>]
    /\ pool = [i \in 1..PoolSize |-> i]
    /\ wire = [c \in Conns |-> <<>>]
    /\ srv = [c \in Conns |-> NewServer]
    /\ handle = [c \in Conns |-> {}]
    /\ log = [c \in Conns |-> <<>>]
    /\ ev = NoEv
    /\ ncalls = 0
    /\ hashring = NewHashRing
    /\ fac = [NewFactory(FALSE, TRUE) EXCEPT
                !.deferred = FALSE, !.handlerPromise = <<"handler">>]
    /\ sub = NewSub("SubscriberProtocol")
    /\ \E cs \in {"utf-8", "None"}, res \in Replies(MaxDepth) :
          reader = [charset |-> cs, res |-> res, out |-> <<>>]

\* dataReceived converts the reply the reader returned
Convert ==
    /\ reader.out = <<>>
    /\ reader' = [reader EXCEPT !.out = <<Converted(reader.res, reader.charset)>>]
    /\ UNCHANGED <<conn, cq, pool, wire, srv, handle, log, ev, ncalls, fac,
                   hashring, sub>>

NextCoerce == Convert

SpecCoerce == InitCoerce /\ [][NextCoerce]_vars

RECURSIVE Coerced(_, _)
\* value coercion applied to every bulk string of v, at any depth
Coerced(v, charset) ==
    IF v.t = "list"
    THEN ListVal([i \in 1..Len(v.items) |-> Coerced(v.items[i], charset)])
    ELSE tryConvertData(v, charset)

\* C33: dataReceived coerces every bulk string of a reply at any nesting
\* depth by the rule of a top-level bulk string, and a bulk string that
\* starts with one of [0-9+-.] and is no valid number (+inf, -inf) stays a
\* string.
C33_CoercionRecurses ==
    reader.out # <<>> => reader.out[1] = Coerced(reader.res, reader.charset)

\* value coercion of the i-th item of the reply the last step received
Item(i) == tryConvertData(sub.recv[1].res.items[i], "utf-8")
\* the reply the last step received is an array of n items whose first is kind
Pushed(kind, n) ==
    /\ sub.recv # <<>> /\ sub.recv[1].res.t = "list"
    /\ Len(sub.recv[1].res.items) = n
    /\ sub.recv[1].res.items[1] = RawStr(kind)

\* C31: on a subscriber connection a reply ["message", channel, payload] is
\* delivered as messageReceived(None, channel, payload) and a reply
\* ["pmessage", pattern, channel, payload] as messageReceived(pattern,
\* channel, payload), for every channel, pattern and payload; neither
\* fires a promise; an error reply fires the first waiting promise, with
\* the error.
C31_PushReplies ==
    sub.protocol = "SubscriberProtocol" =>
        /\ Pushed(message, 3) =>
              /\ sub.msg = <<[pattern |-> NoneVal, channel |-> Item(2),
                              message |-> Item(3)]>>
              /\ sub.done = <<>>
        /\ Pushed(pmessage, 4) =>
              /\ sub.msg = <<[pattern |-> Item(2), channel |-> Item(3),
                              message |-> Item(4)]>>
              /\ sub.done = <<>>
        /\ (/\ sub.recv # <<>> /\ sub.recv[1].res.t = "error"
            /\ sub.recv[1].waiting # <<>>) =>
              /\ sub.msg = <<>> /\ Len(sub.done) = 1
              /\ sub.done[1].id = sub.recv[1].waiting[1].id
              /\ sub.done[1].out = sub.recv[1].res

\* C32: once subscribe or psubscribe has been issued on a subscriber
\* connection, the connection is not put into the connection queue.
C32_NeverFreeAgain ==
    (sub.protocol = "SubscriberProtocol" /\ sub.subscribed) => sub.put = 0

\* the confirmation a call of method m gets
KindOf(m) ==
    CASE m = "subscribe" -> subscribe [] m = "unsubscribe" -> unsubscribe
      [] m = "psubscribe" -> psubscribe [] OTHER -> punsubscribe

\* C36: a promise of subscribe, unsubscribe, psubscribe or punsubscribe that
\* is fired with a confirmation is fired with one of its own method for a
\* channel named in its own call, not with a confirmation another call
\* left over.
C36_OwnConfirmation ==
    sub.protocol = "SubscriberProtocol" =>
        \A i \in 1..Len(sub.done) :
            sub.done[i].out.t = "list" =>
                /\ sub.done[i].out.items[1] = Unicode(KindOf(sub.done[i].m))
                /\ \E k \in 1..Len(sub.done[i].chans) :
                      sub.done[i].out.items[2] =
                          tryConvertData(RawStr(sub.done[i].chans[k]), "utf-8")

\* C37: connectionLost on a monitor connection finishes, also when promises
\* such as the one of monitor() wait in the reply queue: once it has
\* reached its while loop it leaves it.
C37_LossTerminates == sub.losing ~> ~sub.losing

====
